---- MODULE Spec2Model ----
(***************************************************************************)
(* Model of the RelyHome automation worker (src/unnamed/part_001): the     *)
(* process-wide cookie cache, the /accept, /scrape and /login handlers,    *)
(* processJob and loginToRelyHome.  Every `await` of the source is a       *)
(* point where the awaited browser operation resolves or rejects and where *)
(* another request's task may run.  A `delay(ms)` cannot reject and        *)
(* touches no state, so it is folded into the step that precedes it.       *)
(*                                                                         *)
(* Page texts, labels and URLs are sequences of tokens; `includes` is      *)
(* containment of a contiguous run of tokens, toLowerCase maps tokens.     *)
(*                                                                         *)
(* Under Spec the worker serves its requests one after another: a request  *)
(* is taken when no other is in flight, and the cache and the clock carry  *)
(* over from one request to the next.                                      *)
(***************************************************************************)
EXTENDS Integers, Sequences, FiniteSets, TLC

\* ------------------------------------------------------------------ bounds
NumTasks == 1
MaxTicks == 1
\* the longest text, in tokens, a function is called on by itself
MaxTextLen == 3
\* longest slot list and longest preference list findBestSlot is called on
MaxSlots == 2
MaxPrefs == 2
\* longest list of preferred times of which only the last one is on the page
MaxPrefLen == 12

Tasks == 1..NumTasks

\* ------------------------------------------------------------- constants
Null == "null"

RELYHOME_COOKIE_TTL_MS == 1000 * 60 * 60 * 20

MinTextLength == 40

RELYHOME_SESSION_EXPIRED_PATTERNS ==
  << <<"login">>, <<"sign", "in">>, <<"session", "expired">>,
     <<"please", "log", "in">>, <<"authentication", "required">> >>

ConfirmWords ==
  << <<"confirmed">>, <<"accepted">>, <<"scheduled">>, <<"success">>,
     <<"thank", "you">> >>

ErrNoCredentials == "Session expired and no credentials configured"
ErrNoSlots == "No time slots found on page"
ErrNoSubmit == "Could not find submit button"
ErrFields == "Could not find login form fields"
ErrInvalidCredentials == "Login failed: Invalid credentials"
ErrStillOnLogin == "Login appears to have failed - still on login page"
ErrScrapeNoCredentials == "Session expired and no credentials"
ErrPortalLogin == "Session failed - redirected back to login"
\* message of an Error rejected by the browser driver (timeout, closed page...)
ErrDriver == "driver error"

\* --------------------------------------------------------- string helpers
\* String.prototype.toLowerCase, token by token
LowerTok(w) ==
  CASE w = "Monday" -> "monday"
    [] w = "Tuesday" -> "tuesday"
    [] w = "Mon" -> "mon"
    [] w = "Tue" -> "tue"
    [] w = "Confirmed" -> "confirmed"
    [] w = "Thank" -> "thank"
    [] w = "Login" -> "login"
    [] w = "Welcome" -> "welcome"
    [] w = "Invalid" -> "invalid"
    [] w = "Password" -> "password"
    [] OTHER -> w

toLowerCase(s) == [i \in 1..Len(s) |-> LowerTok(s[i])]

\* number of characters of one token; "<filler-N>" stands for N characters of
\* running text that contains none of the phrases the code looks for
TokLen(w) ==
  CASE w \in {"<filler-50>", "<blanks-50>"} -> 50
    [] w = "<filler-600>" -> 600
    [] w = "<filler-39>" -> 39
    [] w = "<filler-40>" -> 40
    [] w \in {"in", "hi", "my"} -> 2
    [] w \in {"mon", "log", "you", "job", "out"} -> 3
    [] w \in {"sign", "your", "jobs"} -> 4
    [] w \in {"login", "Login", "thank", "Thank"} -> 5
    [] w \in {"monday", "Monday", "please", "9:00am", "logout"} -> 6
    [] w \in {"tuesday", "Tuesday", "welcome", "Welcome", "invalid", "Invalid",
              "expired", "session", "success", "account"} -> 7
    [] w \in {"password", "Password", "accepted", "required"} -> 8
    [] w \in {"confirmed", "Confirmed", "scheduled", "dashboard",
              "available"} -> 9
    [] w = "authentication" -> 14
    [] w = "02/14/2024" -> 10
    [] w = "credentials" -> 11
    [] w \in {"1:00pm-3:00pm"} -> 13
    [] w \in {"9:00am-11:00am"} -> 14
    [] OTHER -> 8

RECURSIVE SumLen(_)
SumLen(s) == IF s = <<>> THEN 0 ELSE TokLen(Head(s)) + SumLen(Tail(s))

\* String.prototype.length of a text: its tokens and the blanks between them
StrLen(s) == IF s = <<>> THEN 0 ELSE SumLen(s) + (Len(s) - 1)

\* String.prototype.includes
includes(s, p) ==
  \E i \in 0..(Len(s) - Len(p)) : \A j \in 1..Len(p) : s[i + j] = p[j]

\* Array.prototype.some over a list of phrases
someIncluded(s, phrases) == \E k \in 1..Len(phrases) : includes(s, phrases[k])

\* "<blanks-N>" stands for N characters of white space
IsBlank(w) == w = "<blanks-50>"

\* String.prototype.trim
trim(s) ==
  LET kept == {i \in 1..Len(s) : ~IsBlank(s[i])}
  IN  IF kept = {} THEN <<>>
      ELSE SubSeq(s, CHOOSE i \in kept : \A j \in kept : i <= j,
                     CHOOSE i \in kept : \A j \in kept : i >= j)

\* mutant: the length of the text as it was read, white space included
looksExpiredUntrimmed(text) ==
  LET t == toLowerCase(text)
  IN  IF StrLen(t) < MinTextLength THEN TRUE
      ELSE someIncluded(t, RELYHOME_SESSION_EXPIRED_PATTERNS)

looksLikeRelyhomeSessionExpired(text) ==
  LET t == trim(toLowerCase(text))
  IN  IF StrLen(t) < MinTextLength THEN TRUE
      ELSE someIncluded(t, RELYHOME_SESSION_EXPIRED_PATTERNS)

\* ------------------------------------------------------- slot selection
DayNames == {"monday", "tuesday", "wednesday", "thursday", "friday",
             "saturday", "sunday"}

getDayFull(abbrev) ==
  CASE abbrev = "sun" -> "sunday"
    [] abbrev = "mon" -> "monday"
    [] abbrev = "tue" -> "tuesday"
    [] abbrev = "wed" -> "wednesday"
    [] abbrev = "thu" -> "thursday"
    [] abbrev = "fri" -> "friday"
    [] abbrev = "sat" -> "saturday"
    [] OTHER -> abbrev

\* the fragments /(\d{1,2}):?(\d{2})?\s*(am|pm)?/gi finds in one token
TimeFragments(w) ==
  CASE w = "9:00am-11:00am" -> {"9:00am", "11:00am"}
    [] w = "1:00pm-3:00pm" -> {"1:00pm", "3:00pm"}
    [] w = "11:00am-1:00pm" -> {"11:00am", "1:00pm"}
    [] w = "11:00am" -> {"11:00am"}
    [] w = "9:00am" -> {"9:00am"}
    [] w = "7:00am" -> {"7:00am"}
    [] w = "1:00pm" -> {"1:00pm"}
    [] w = "02/14/2024" -> {"02", "14", "2024"}
    [] OTHER -> {}

TimesOf(s) == UNION {TimeFragments(s[i]) : i \in 1..Len(s)}

\* includes() of a one-token needle also finds it inside a longer token
TokIncludes(w, p) ==
  \/ w = p
  \/ p \in TimeFragments(w)
  \/ p = "mon" /\ w = "monday"
  \/ p = "tue" /\ w = "tuesday"

labelIncludes(label, p) == \E i \in 1..Len(label) : TokIncludes(label[i], p)

timeRangeMatches(label, prefSlot) ==
  LET labelTimes == TimesOf(label)
      prefTimes == TimeFragments(prefSlot)
  IN  IF labelTimes = {} \/ prefTimes = {} THEN FALSE
      ELSE labelTimes \cap prefTimes # {}

\* mutant: every preferred day found in the label adds 100
DayScoreEachDay(labelLower, normDays) ==
  100 * Cardinality({i \in 1..Len(normDays) :
                       labelIncludes(labelLower, normDays[i])
                       \/ labelIncludes(labelLower, getDayFull(normDays[i]))})

\* score of one slot (the body of availableSlots.map in findBestSlot)
DayScore(labelLower, normDays) ==
  IF \E i \in 1..Len(normDays) :
       labelIncludes(labelLower, normDays[i])
       \/ labelIncludes(labelLower, getDayFull(normDays[i]))
  THEN 100 ELSE 0

SlotHit(labelLower, prefSlot) ==
  labelIncludes(labelLower, prefSlot) \/ timeRangeMatches(labelLower, prefSlot)

\* mutant: every preferred time is worth 50, whatever its place in the list
TimeScoreFlat(labelLower, normSlots) ==
  IF \E i \in 1..Len(normSlots) : SlotHit(labelLower, normSlots[i])
  THEN 50 ELSE 0

TimeScore(labelLower, normSlots) ==
  IF \E i \in 1..Len(normSlots) : SlotHit(labelLower, normSlots[i])
  THEN LET first == CHOOSE i \in 1..Len(normSlots) :
                      /\ SlotHit(labelLower, normSlots[i])
                      /\ \A j \in 1..(i - 1) : ~SlotHit(labelLower, normSlots[j])
       IN  50 - (first - 1) * 5
  ELSE 0

SlotScore(slot, preferredDays, preferredSlots) ==
  LET labelLower == toLowerCase(slot.label)
  IN  DayScore(labelLower, toLowerCase(preferredDays))
      + TimeScore(labelLower, toLowerCase(preferredSlots))

\* availableSlots.map((slot) => ({ ...slot, score }))
scoredSlots(availableSlots, preferredDays, preferredSlots) ==
  [i \in 1..Len(availableSlots) |->
     [value |-> availableSlots[i].value, label |-> availableSlots[i].label,
      id |-> availableSlots[i].id, name |-> availableSlots[i].name,
      score |-> SlotScore(availableSlots[i], preferredDays, preferredSlots)]]

\* mutant: among equal scores the slot discovered last comes first
sortTiesReversed(scored) ==
  LET n == Len(scored)
      rank(i) == 1 + Cardinality({j \in 1..n :
                        \/ scored[j].score > scored[i].score
                        \/ scored[j].score = scored[i].score /\ j > i})
  IN  [k \in 1..n |-> scored[CHOOSE i \in 1..n : rank(i) = k]]

\* scoredSlots.sort((a, b) => b.score - a.score): descending by score, and
\* stable, so that equal scores keep the discovery order
sortByScore(scored) ==
  LET n == Len(scored)
      rank(i) == 1 + Cardinality({j \in 1..n :
                        \/ scored[j].score > scored[i].score
                        \/ scored[j].score = scored[i].score /\ j < i})
  IN  [k \in 1..n |-> scored[CHOOSE i \in 1..n : rank(i) = k]]

\* what scoredSlots[0] is when the array is empty
Undefined == [value |-> "", label |-> <<>>, id |-> "", name |-> ""]

\* mutant: a slot that matches no preference is not selected
findBestSlotMatchingOnly(availableSlots, preferredDays, preferredSlots) ==
  LET sorted == sortByScore(scoredSlots(availableSlots, preferredDays,
                                        preferredSlots))
  IN  IF Len(sorted) = 0 \/ sorted[1].score = 0 THEN Undefined ELSE sorted[1]

\* return scoredSlots[0] after the sort
findBestSlot(availableSlots, preferredDays, preferredSlots) ==
  LET sorted == sortByScore(scoredSlots(availableSlots, preferredDays,
                                        preferredSlots))
  IN  IF Len(sorted) = 0 THEN Undefined ELSE sorted[1]

IsDateTok(w) == w \in {"02/14/2024"}
IsRangeTok(w) == w \in {"9:00am-11:00am", "1:00pm-3:00pm", "11:00am-1:00pm"}

FirstTok(label, P(_)) ==
  IF \E i \in 1..Len(label) : P(label[i])
  THEN label[CHOOSE i \in 1..Len(label) :
               P(label[i]) /\ \A j \in 1..(i - 1) : ~P(label[j])]
  ELSE Null

IsDayTok(w) == LowerTok(w) \in DayNames

\* mutant: the time range of the label is not recognised
parseSlotLabelNoRange(label) ==
  [date |-> FirstTok(label, IsDateTok),
   day |-> FirstTok(label, IsDayTok),
   timeRange |-> Null]

parseSlotLabel(label) ==
  [date |-> FirstTok(label, IsDateTok),
   day |-> FirstTok(label, IsDayTok),
   timeRange |-> FirstTok(label, IsRangeTok)]

\* mutant: the labels in the reverse of the discovery order
labelsReversed(slots) == [i \in 1..Len(slots) |-> slots[Len(slots) + 1 - i].label]

\* availableSlots.map((s) => s.label)
labelsOf(slots) == [i \in 1..Len(slots) |-> slots[i].label]


\* ------------------------------------------------------- slot discovery
\* a string as a text: the empty string has no token
textOf(str) == IF str = "" THEN <<>> ELSE <<str>>

\* textContent.trim() of an element that may not exist ('' when it does not)
trimmedText(element) == IF element.present THEN trim(element.text) ELSE <<>>

\* mutant: the raw value is not used as a label
labelTextNoValue(radio) ==
  LET ofLabel == IF radio.id # "" THEN trimmedText(radio.label) ELSE <<>>
  IN  IF ofLabel # <<>> THEN ofLabel ELSE trimmedText(radio.parent)

\* labelText of one radio: label[for=id], else closest('tr, div, li'), else
\* radio.value
labelText(radio) ==
  LET ofLabel == IF radio.id # "" THEN trimmedText(radio.label) ELSE <<>>
      ofParent == IF ofLabel # <<>> THEN ofLabel ELSE trimmedText(radio.parent)
  IN  IF ofParent # <<>> THEN ofParent ELSE textOf(radio.value)

\* the function page.evaluate runs for availableSlots: radioButtons.forEach
\* pushes one slot per radio, in the order of querySelectorAll
slotsOf(radioButtons) ==
  [i \in 1..Len(radioButtons) |->
     [value |-> radioButtons[i].value, label |-> labelText(radioButtons[i]),
      id |-> radioButtons[i].id, name |-> radioButtons[i].name]]

\* ------------------------------------------------------------ environment
\* what the portal and the callers can supply (small, but every branch of the
\* code is reachable with them)
Secrets == {"s1", "s2"}

SlotMon == [value |-> "v-mon", label |-> <<"Monday", "9:00am-11:00am">>,
            id |-> "slot1", name |-> "appttime"]
SlotTue == [value |-> "v-tue", label |-> <<"Tuesday", "1:00pm-3:00pm">>,
            id |-> "", name |-> "appttime"]

SlotLists == {<<>>, <<SlotMon>>, <<SlotMon, SlotTue>>}

Preferences ==
  {[days |-> <<>>, slots |-> <<>>], [days |-> <<"Tue">>, slots |-> <<"9:00am">>]}

TextLoginPage == <<"Please", "Login", "<filler-50>">>
TextShort == <<"hi">>
TextAcceptPage == <<"<filler-50>", "job">>
FirstTexts == {TextLoginPage, TextShort, TextAcceptPage}

TextConfirmed == <<"Thank", "you", "<filler-50>">>
TextPlain == <<"<filler-50>">>
PostTexts == {TextConfirmed, TextPlain}

\* 'https://relyhome.com', cut where the words the code looks for begin and end
Origin == <<"https://rely", "home", ".com">>

UrlLogin == Origin \o <<"/", "login">>
UrlDashboard == Origin \o <<"/", "dashboard">>
UrlOther == Origin \o <<"/", "index.php">>
UrlTokenized == Origin \o <<"/", "available", "-swo.php?", "vid=", "&", "exp=">>
\* a login page the portal redirected to on another host
UrlSso == <<"https://sso.example", "/", "login">>

TextInvalid == <<"Invalid", "credentials", "<filler-50>">>
TextWelcome == <<"Welcome", "<filler-50>">>
TextPasswordForm == <<"Password">>
TextLong == <<"<filler-600>">>

ShotSubmit == "shot-after-submit"
ShotError == "shot-on-error"

\* the cookie list page.cookies() reads in task t
Jar(t) == << [name |-> "PHPSESSID", value |-> t] >>

\* ------------------------------------------------------------------ state
VARIABLES
  WORKER_SECRET,            \* process.env.AUTOMATION_WORKER_SECRET ("" = unset)
  RELYHOME_USERNAME,        \* process.env.RELYHOME_USERNAME ("" = unset)
  RELYHOME_PASSWORD,        \* process.env.RELYHOME_PASSWORD ("" = unset)
  relyhomeCookies,          \* the cached cookie list, NoCookies for null
  relyhomeCookiesUpdatedAt, \* Date.now() of the save that stored it, or 0
  now,                      \* Date.now()
  ticks,                    \* how often the clock was advanced
  pc,                       \* per request: the await its task is suspended at
  req,                      \* per request: req.body
  browser,                  \* per request: Null, "open" or "closed"
  loc,                      \* per request: the locals of its handler
  res,                      \* per request: the HTTP responses sent
  callbacks,                \* per request: the payloads POSTed to callback_url
  trace,                    \* per request: what its task did, in order
  call                      \* a function called on its own: arguments and result

cfgVars == <<WORKER_SECRET, RELYHOME_USERNAME, RELYHOME_PASSWORD>>
cacheVars == <<relyhomeCookies, relyhomeCookiesUpdatedAt>>
clockVars == <<now, ticks>>
callVars == <<call>>
vars == <<WORKER_SECRET, RELYHOME_USERNAME, RELYHOME_PASSWORD,
          relyhomeCookies, relyhomeCookiesUpdatedAt, now, ticks,
          pc, req, browser, loc, res, callbacks, trace, call>>

NoReq == [kind |-> "none"]

\* no function is called on its own
NoCall == [fn |-> "none"]

\* let relyhomeCookies = null; the code never stores an empty list (line 71),
\* so the empty sequence stands for null
NoCookies == <<>>

\* a local that no slot was assigned to yet
NoSlot == [value |-> "", label |-> <<>>, id |-> "", name |-> ""]

\* let portalUrl = null; a url that was not found
NoUrl == <<>>

InitLoc ==
  [screenshotBase64 |-> Null, availableSlots |-> <<>>, bestSlot |-> NoSlot,
   error |-> Null, stillOnLoginUrl |-> FALSE, markdown |-> <<>>,
   portalUrl |-> NoUrl, u |-> "", p |-> "",
   usernameField |-> FALSE, passwordField |-> FALSE, page |-> Null,
   setCookieArgs |-> NoCookies]

\* the environments the worker is started in
Environments ==
  {[secret |-> "s1", username |-> "user", password |-> "pass"],
   [secret |-> "", username |-> "user", password |-> "pass"],
   [secret |-> "s1", username |-> "", password |-> "pass"],
   [secret |-> "", username |-> "user", password |-> ""]}

\* the worker has started in one of the environments envs and can hold the
\* requests tasks at a time
StartedIn(envs, tasks) ==
  /\ \E env \in envs :
       /\ WORKER_SECRET = env.secret
       /\ RELYHOME_USERNAME = env.username
       /\ RELYHOME_PASSWORD = env.password
  /\ relyhomeCookies = NoCookies
  /\ relyhomeCookiesUpdatedAt = 0
  /\ now = 2 * RELYHOME_COOKIE_TTL_MS
  /\ ticks = 0
  /\ pc = [t \in tasks |-> "idle"]
  /\ req = [t \in tasks |-> NoReq]
  /\ browser = [t \in tasks |-> Null]
  /\ loc = [t \in tasks |-> InitLoc]
  /\ res = [t \in tasks |-> <<>>]
  /\ callbacks = [t \in tasks |-> <<>>]
  /\ trace = [t \in tasks |-> <<>>]

ProgramInit == StartedIn(Environments, Tasks)

Init == ProgramInit /\ call = NoCall

\* ------------------------------------------------------------ the cache
\* mutant: <= in place of <
hasFreshCookieCacheInclusive ==
  /\ relyhomeCookies # NoCookies
  /\ Len(relyhomeCookies) > 0
  /\ now - relyhomeCookiesUpdatedAt <= RELYHOME_COOKIE_TTL_MS

hasFreshCookieCache ==
  /\ relyhomeCookies # NoCookies
  /\ Len(relyhomeCookies) > 0
  /\ now - relyhomeCookiesUpdatedAt < RELYHOME_COOKIE_TTL_MS

\* the time passes between any two steps
TickSteps == {RELYHOME_COOKIE_TTL_MS - 1, RELYHOME_COOKIE_TTL_MS}

Tick ==
  /\ ticks < MaxTicks
  /\ \E d \in TickSteps : now' = now + d
  /\ ticks' = ticks + 1
  /\ UNCHANGED <<cfgVars, callVars, cacheVars, pc, req, browser, loc, res, callbacks, trace>>

\* ------------------------------------------------------------- helpers
Ev(t, events) == trace' = [trace EXCEPT ![t] = @ \o events]

Goto(t, label) == pc' = [pc EXCEPT ![t] = label]

\* mutant: the failure payload keeps the slot chosen before the error
FailurePayloadKeepsSlot(t, l, message) ==
  [job_id |-> req[t].job_id,
   task_id |-> req[t].task_id,
   success |-> FALSE,
   selected_slot |-> IF l.bestSlot = NoSlot THEN Null ELSE l.bestSlot.value,
   selected_date |-> Null,
   selected_day |-> Null,
   confirmation_message |-> Null,
   screenshot_base64 |-> l.screenshotBase64,
   available_slots |-> [i \in 1..Len(l.availableSlots) |-> l.availableSlots[i].label],
   error |-> message,
   secret |-> req[t].secret]

\* the failure payload of processJob's catch block
FailurePayload(t, l, message) ==
  [job_id |-> req[t].job_id,
   task_id |-> req[t].task_id,
   success |-> FALSE,
   selected_slot |-> Null,
   selected_date |-> Null,
   selected_day |-> Null,
   confirmation_message |-> Null,
   screenshot_base64 |-> l.screenshotBase64,
   available_slots |-> labelsOf(l.availableSlots),
   error |-> message,
   secret |-> req[t].secret]

isConfirmed(pageText) == someIncluded(toLowerCase(pageText), ConfirmWords)

OrElse(a, b) == IF a = Null THEN b ELSE a

\* mutant: success only when the confirmation text was recognised
SuccessPayloadIfConfirmed(t, pageText) ==
  [job_id |-> req[t].job_id,
   task_id |-> req[t].task_id,
   success |-> someIncluded(toLowerCase(pageText), ConfirmWords),
   selected_slot |-> OrElse(parseSlotLabel(loc[t].bestSlot.label).timeRange,
                            loc[t].bestSlot.value),
   selected_date |-> parseSlotLabel(loc[t].bestSlot.label).date,
   selected_day |-> parseSlotLabel(loc[t].bestSlot.label).day,
   confirmation_message |->
     IF someIncluded(toLowerCase(pageText), ConfirmWords)
     THEN "Job accepted" ELSE "Submitted",
   screenshot_base64 |-> loc[t].screenshotBase64,
   available_slots |-> [i \in 1..Len(loc[t].availableSlots) |->
                          loc[t].availableSlots[i].label],
   error |-> IF someIncluded(toLowerCase(pageText), ConfirmWords)
             THEN Null ELSE "Not confirmed",
   secret |-> req[t].secret]

\* the success payload of processJob
SuccessPayload(t, pageText) ==
  LET parsed == parseSlotLabel(loc[t].bestSlot.label)
  IN  [job_id |-> req[t].job_id,
       task_id |-> req[t].task_id,
       success |-> TRUE,
       selected_slot |-> OrElse(parsed.timeRange, loc[t].bestSlot.value),
       selected_date |-> parsed.date,
       selected_day |-> parsed.day,
       confirmation_message |->
         IF isConfirmed(pageText) THEN "Job accepted" ELSE "Submitted",
       screenshot_base64 |-> loc[t].screenshotBase64,
       available_slots |-> labelsOf(loc[t].availableSlots),
       error |-> Null,
       secret |-> req[t].secret]

\* sendCallback up to its await: the POST of the payload
sendCallback(t, data) == callbacks' = [callbacks EXCEPT ![t] = Append(@, data)]


\* ---------------------------------------------------------- POST /accept
\* what the handler does once the secret was accepted, in order
AcceptSteps == <<"res.json", "processJob", "puppeteer.launch">>

\* mutant: only a missing secret is turned away
secretRejectedOnlyIfMissing(secret) == WORKER_SECRET # "" /\ secret = ""

secretRejected(secret) == WORKER_SECRET # "" /\ secret # WORKER_SECRET

\* POST /accept with preferences drawn from prefs
AcceptWith(t, prefs) ==
  /\ pc[t] = "idle"
  /\ \E secret \in Secrets, pref \in prefs :
       LET body == [kind |-> "job", job_id |-> 100 + t, task_id |-> 200 + t,
                    accept_url |-> "accept_url", preferred_slots |-> pref.slots,
                    preferred_days |-> pref.days, callback_url |-> "callback_url",
                    secret |-> secret]
       IN  /\ req' = [req EXCEPT ![t] = body]
           /\ IF secretRejected(secret)
              THEN /\ res' = [res EXCEPT ![t] =
                               Append(@, [status |-> 401, error |-> "Invalid secret"])]
                   /\ Ev(t, <<"res.401">>)
                   /\ Goto(t, "done")
              ELSE /\ res' = [res EXCEPT ![t] =
                               Append(@, [status |-> 200, body |-> "processing",
                                          job_id |-> body.job_id,
                                          task_id |-> body.task_id])]
                   /\ Ev(t, AcceptSteps)
                   /\ Goto(t, "launch")
  /\ UNCHANGED <<cfgVars, callVars, cacheVars, clockVars, browser, loc, callbacks>>

Accept(t) == AcceptWith(t, Preferences)

\* finally { if (browser) await browser.close(); }
Finally(t, before) ==
  IF browser[t] # Null
  THEN Ev(t, before \o <<"browser.close">>) /\ Goto(t, "close")
  ELSE Ev(t, before \o <<"return">>) /\ Goto(t, "done")

\* ------------------------------------------------------------ processJob
\* mutant: the failure callback sits inside `if (browser)`, so a failed launch
\* reports nothing
JobCatchNeedsBrowser(t, before, l, message) ==
  /\ loc' = [loc EXCEPT ![t] = [l EXCEPT !.error = message]]
  /\ IF browser[t] = Null
     THEN /\ Ev(t, before \o <<"throw", "return">>)
          /\ Goto(t, "done")
          /\ UNCHANGED callbacks
     ELSE /\ Ev(t, before \o <<"throw", "browser.pages">>)
          /\ Goto(t, "pages")
          /\ UNCHANGED callbacks

\* a step of the try block threw: the catch block up to its first await
JobCatch(t, before, l, message) ==
  /\ loc' = [loc EXCEPT ![t] = [l EXCEPT !.error = message]]
  /\ IF browser[t] = Null
     THEN /\ sendCallback(t, FailurePayload(t, l, message))
          /\ Ev(t, before \o <<"throw", "callback">>)
          /\ Goto(t, "fetch")
     ELSE /\ Ev(t, before \o <<"throw", "browser.pages">>)
          /\ Goto(t, "pages")
          /\ UNCHANGED callbacks

\* applyRelyhomeCookieCache up to its await, then the call that follows it
ApplyStart(t, next) ==
  IF hasFreshCookieCache
  THEN /\ Ev(t, <<"page.setCookie">>)
       /\ Goto(t, "setCookie")
  ELSE /\ Ev(t, <<next>>)
       /\ Goto(t, next)

JobLaunch(t) ==
  /\ pc[t] = "launch"
  /\ \/ /\ browser' = [browser EXCEPT ![t] = "open"]
        /\ Ev(t, <<"browser.newPage">>)
        /\ Goto(t, "newPage")
        /\ UNCHANGED <<loc, callbacks>>
     \/ /\ JobCatch(t, <<>>, loc[t], ErrDriver)
        /\ UNCHANGED browser
  /\ UNCHANGED <<cfgVars, callVars, cacheVars, clockVars, req, res>>

\* the tab the browser is launched with, and the page of browser.newPage()
InitialTab == "about:blank"
JobPage == "accept page"

\* browser.pages(): puppeteer.launch resolves once the initial tab of the
\* browser is ready (waitForInitialPage), and browser.newPage() adds its page
\* after it; pages are listed in the order they were created
browserPages(t) ==
  IF loc[t].page = Null THEN <<InitialTab>> ELSE <<InitialTab, loc[t].page>>

\* const page = await browser.newPage()
JobNewPage(t) ==
  /\ pc[t] = "newPage"
  /\ \/ /\ loc' = [loc EXCEPT ![t].page = JobPage]
        /\ Ev(t, <<"page.setViewport">>)
        /\ Goto(t, "setViewport")
        /\ UNCHANGED callbacks
     \/ JobCatch(t, <<>>, loc[t], ErrDriver)
  /\ UNCHANGED <<cfgVars, callVars, cacheVars, clockVars, req, browser, res>>

\* mutant: the first navigation is made without the cached cookies
JobSetViewportNoApply(t) ==
  /\ pc[t] = "setViewport"
  /\ \/ /\ Ev(t, <<"page.goto">>)
        /\ Goto(t, "page.goto")
        /\ UNCHANGED <<loc, callbacks>>
     \/ JobCatch(t, <<>>, loc[t], ErrDriver)
  /\ UNCHANGED <<cfgVars, callVars, cacheVars, clockVars, req, browser, res>>

JobSetViewport(t) ==
  /\ pc[t] = "setViewport"
  /\ \/ /\ ApplyStart(t, "page.goto")
        /\ UNCHANGED <<loc, callbacks>>
     \/ JobCatch(t, <<>>, loc[t], ErrDriver)
  /\ UNCHANGED <<cfgVars, callVars, cacheVars, clockVars, req, browser, res>>

\* the call that follows `await applyRelyhomeCookieCache(page)`
AfterApply(t) == IF req[t].kind = "job" THEN "page.goto" ELSE "scrape.goto"

\* mutant: a failed page.setCookie is logged and the cache is kept
SetCookieKeepsCache(t) ==
  /\ pc[t] = "setCookie"
  /\ \/ /\ relyhomeCookies # NoCookies
        /\ Ev(t, <<"cookies applied", AfterApply(t)>>)
     \/ Ev(t, <<"cache cleared", AfterApply(t)>>)
  /\ UNCHANGED cacheVars
  /\ Goto(t, AfterApply(t))
  /\ UNCHANGED <<cfgVars, callVars, clockVars, req, browser, loc, res, callbacks>>

\* mutant: the catch block drops the list and keeps its timestamp
SetCookieKeepsStamp(t) ==
  /\ pc[t] = "setCookie"
  /\ \/ /\ relyhomeCookies # NoCookies
        /\ Ev(t, <<"cookies applied", AfterApply(t)>>)
        /\ UNCHANGED cacheVars
     \/ /\ relyhomeCookies' = NoCookies
        /\ UNCHANGED relyhomeCookiesUpdatedAt
        /\ Ev(t, <<"cache cleared", AfterApply(t)>>)
  /\ Goto(t, AfterApply(t))
  /\ UNCHANGED <<cfgVars, callVars, clockVars, req, browser, loc, res, callbacks>>

\* mutant: the log line that reads relyhomeCookies.length is outside the try
SetCookieLogsOutsideTry(t) ==
  /\ pc[t] = "setCookie"
  /\ \/ /\ relyhomeCookies # NoCookies
        /\ Ev(t, <<"cookies applied", AfterApply(t)>>)
        /\ Goto(t, AfterApply(t))
        /\ UNCHANGED <<cacheVars, loc, res, callbacks>>
     \/ /\ relyhomeCookies = NoCookies
        /\ Ev(t, <<"throw">>)
        /\ Goto(t, "done")
        /\ res' = [res EXCEPT ![t] = Append(@, [status |-> 500, error |-> ErrDriver])]
        /\ UNCHANGED <<cacheVars, loc, callbacks>>
     \/ /\ relyhomeCookies' = NoCookies
        /\ relyhomeCookiesUpdatedAt' = 0
        /\ Ev(t, <<"cache cleared", AfterApply(t)>>)
        /\ Goto(t, AfterApply(t))
        /\ UNCHANGED <<loc, res, callbacks>>
  /\ UNCHANGED <<cfgVars, callVars, clockVars, req, browser>>

\* mutant: the catch block clears the cache only while it still holds the
\* cookies that were passed to page.setCookie
SetCookieClearsOwn(t) ==
  /\ pc[t] = "setCookie"
  /\ \/ /\ relyhomeCookies # NoCookies
        /\ Ev(t, <<"cookies applied", AfterApply(t)>>)
        /\ UNCHANGED cacheVars
     \/ /\ IF relyhomeCookies = loc[t].setCookieArgs
           THEN relyhomeCookies' = NoCookies /\ relyhomeCookiesUpdatedAt' = 0
           ELSE UNCHANGED cacheVars
        /\ Ev(t, <<"cache cleared", AfterApply(t)>>)
  /\ Goto(t, AfterApply(t))
  /\ UNCHANGED <<cfgVars, callVars, clockVars, req, browser, loc, res, callbacks>>

\* mutant: cookies that were applied count as new again
SetCookieRefreshes(t) ==
  /\ pc[t] = "setCookie"
  /\ \/ /\ relyhomeCookies # NoCookies
        /\ Ev(t, <<"cookies applied", AfterApply(t)>>)
        /\ relyhomeCookiesUpdatedAt' = now
        /\ UNCHANGED relyhomeCookies
     \/ /\ relyhomeCookies' = NoCookies
        /\ relyhomeCookiesUpdatedAt' = 0
        /\ Ev(t, <<"cache cleared", AfterApply(t)>>)
  /\ Goto(t, AfterApply(t))
  /\ UNCHANGED <<cfgVars, callVars, clockVars, req, browser, loc, res, callbacks>>

\* page.setCookie(...relyhomeCookies) settles: applied, or the cache is cleared
SetCookie(t) ==
  /\ pc[t] = "setCookie"
  /\ \/ /\ relyhomeCookies # NoCookies  \* else relyhomeCookies.length throws in the try
        /\ Ev(t, <<"cookies applied", AfterApply(t)>>)
        /\ UNCHANGED cacheVars
     \/ /\ relyhomeCookies' = NoCookies
        /\ relyhomeCookiesUpdatedAt' = 0
        /\ Ev(t, <<"cache cleared", AfterApply(t)>>)
  /\ Goto(t, AfterApply(t))
  /\ UNCHANGED <<cfgVars, callVars, clockVars, req, browser, loc, res, callbacks>>

JobGoto(t) ==
  /\ pc[t] = "page.goto"
  /\ \/ /\ Ev(t, <<"read firstText">>)
        /\ Goto(t, "firstText")
        /\ UNCHANGED <<loc, callbacks>>
     \/ JobCatch(t, <<>>, loc[t], ErrDriver)
  /\ UNCHANGED <<cfgVars, callVars, cacheVars, clockVars, req, browser, res>>

\* mutant: && in place of ||
credentialsBothMissing(username, password) == username = "" /\ password = ""

\* !username || !password
credentialsMissing(username, password) == username = "" \/ password = ""

JobFirstText(t) ==
  /\ pc[t] = "firstText"
  /\ \/ \E firstText \in FirstTexts :
          IF looksLikeRelyhomeSessionExpired(firstText)
          THEN IF credentialsMissing(RELYHOME_USERNAME, RELYHOME_PASSWORD)
               THEN JobCatch(t, <<"session expired">>, loc[t], ErrNoCredentials)
               ELSE /\ Ev(t, <<"session expired", "loginToRelyHome">>)
                    /\ Goto(t, "login.goto")
                    /\ UNCHANGED <<loc, callbacks>>
          ELSE /\ Ev(t, <<"discover slots">>)
               /\ Goto(t, "discover")
               /\ UNCHANGED <<loc, callbacks>>
     \/ JobCatch(t, <<>>, loc[t], ErrDriver)
  /\ UNCHANGED <<cfgVars, callVars, cacheVars, clockVars, req, browser, res>>

\* the second page.goto(accept_url), after login and save
JobGoto2(t) ==
  /\ pc[t] = "page.goto#2"
  /\ \/ /\ Ev(t, <<"discover slots">>)
        /\ Goto(t, "discover")
        /\ UNCHANGED <<loc, callbacks>>
     \/ JobCatch(t, <<>>, loc[t], ErrDriver)
  /\ UNCHANGED <<cfgVars, callVars, cacheVars, clockVars, req, browser, res>>

\* mutant: the empty list is not checked, the submit click is tried anyway
JobDiscoverNoCheck(t) ==
  /\ pc[t] = "discover"
  /\ \/ \E slots \in SlotLists :
          /\ loc' = [loc EXCEPT ![t] =
               [@ EXCEPT !.availableSlots = slots,
                         !.bestSlot = IF Len(slots) = 0 THEN SlotMon
                                      ELSE findBestSlot(slots, req[t].preferred_days,
                                                        req[t].preferred_slots)]]
          /\ Ev(t, <<"discovered", "click slot">>)
          /\ Goto(t, "clickSlot")
          /\ UNCHANGED callbacks
     \/ JobCatch(t, <<>>, loc[t], ErrDriver)
  /\ UNCHANGED <<cfgVars, callVars, cacheVars, clockVars, req, browser, res>>

JobDiscover(t) ==
  /\ pc[t] = "discover"
  /\ \/ \E slots \in SlotLists :
          LET l == [loc[t] EXCEPT !.availableSlots = slots]
          IN  IF Len(slots) = 0
              THEN JobCatch(t, <<"discovered">>, l, ErrNoSlots)
              ELSE /\ loc' = [loc EXCEPT ![t] =
                        [l EXCEPT !.bestSlot =
                           findBestSlot(slots, req[t].preferred_days,
                                        req[t].preferred_slots)]]
                   /\ Ev(t, <<"discovered", "click slot">>)
                   /\ Goto(t, "clickSlot")
                   /\ UNCHANGED callbacks
     \/ JobCatch(t, <<>>, loc[t], ErrDriver)
  /\ UNCHANGED <<cfgVars, callVars, cacheVars, clockVars, req, browser, res>>

\* page.evaluate(sel => { el = querySelector(sel); if (el) el.click() })
JobClickSlot(t) ==
  /\ pc[t] = "clickSlot"
  /\ \/ /\ \E found \in BOOLEAN :
             Ev(t, IF found THEN <<"radio clicked", "click submit">>
                   ELSE <<"radio not found", "click submit">>)
        /\ Goto(t, "submit")
        /\ UNCHANGED <<loc, callbacks>>
     \/ JobCatch(t, <<>>, loc[t], ErrDriver)
  /\ UNCHANGED <<cfgVars, callVars, cacheVars, clockVars, req, browser, res>>

JobSubmit(t) ==
  /\ pc[t] = "submit"
  /\ \/ \E submitClicked \in BOOLEAN :
          IF submitClicked
          THEN /\ Ev(t, <<"submit clicked", "wait navigation">>)
               /\ \E navigating \in BOOLEAN :
                    Goto(t, IF navigating THEN "race.navigating" ELSE "race.still")
               /\ UNCHANGED <<loc, callbacks>>
          ELSE JobCatch(t, <<"submit not found">>, loc[t], ErrNoSubmit)
     \/ JobCatch(t, <<>>, loc[t], ErrDriver)
  /\ UNCHANGED <<cfgVars, callVars, cacheVars, clockVars, req, browser, res>>

\* mutant: waitForNavigation without its .catch: when no navigation happens
\* its timeout rejects the race
JobRaceTimeoutThrows(t) ==
  /\ pc[t] \in {"race.navigating", "race.still"}
  /\ IF pc[t] = "race.navigating"
     THEN /\ Ev(t, <<"navigated", "page.screenshot">>)
          /\ Goto(t, "screenshot")
          /\ UNCHANGED <<loc, callbacks>>
     ELSE JobCatch(t, <<>>, loc[t], ErrDriver)
  /\ UNCHANGED <<cfgVars, callVars, cacheVars, clockVars, req, browser, res>>

\* mutant: waitForNavigation alone, with no timeout and no delay to race it
JobRaceNoDelay(t) ==
  /\ pc[t] = "race.navigating"
  /\ Ev(t, <<"navigated", "page.screenshot">>)
  /\ Goto(t, "screenshot")
  /\ UNCHANGED <<cfgVars, callVars, cacheVars, clockVars, req, browser, loc, res, callbacks>>

\* Promise.race([waitForNavigation(...).catch(() => {}), delay(5000)]): the
\* click started a navigation ("race.navigating") or left the page as it was
JobRace(t) ==
  /\ pc[t] \in {"race.navigating", "race.still"}
  /\ Ev(t, <<IF pc[t] = "race.navigating" THEN "navigated" ELSE "delay elapsed",
             "page.screenshot">>)
  /\ Goto(t, "screenshot")
  /\ UNCHANGED <<cfgVars, callVars, cacheVars, clockVars, req, browser, loc, res, callbacks>>

JobScreenshot(t) ==
  /\ pc[t] = "screenshot"
  /\ \/ /\ loc' = [loc EXCEPT ![t].screenshotBase64 = ShotSubmit]
        /\ Ev(t, <<"screenshot taken", "read pageText">>)
        /\ Goto(t, "pageText")
        /\ UNCHANGED callbacks
     \/ JobCatch(t, <<>>, loc[t], ErrDriver)
  /\ UNCHANGED <<cfgVars, callVars, cacheVars, clockVars, req, browser, res>>

\* mutant: a failed read of the page text is swallowed
JobPageTextSwallow(t) ==
  /\ pc[t] = "pageText"
  /\ \/ \E pageText \in PostTexts :
          /\ sendCallback(t, SuccessPayload(t, pageText))
          /\ Ev(t, <<"text read", "callback">>)
     \/ /\ sendCallback(t, SuccessPayload(t, <<>>))
        /\ Ev(t, <<"callback">>)
  /\ Goto(t, "fetch")
  /\ UNCHANGED <<cfgVars, callVars, cacheVars, clockVars, req, browser, loc, res>>

JobPageText(t) ==
  /\ pc[t] = "pageText"
  /\ \/ \E pageText \in PostTexts :
          /\ sendCallback(t, SuccessPayload(t, pageText))
          /\ Ev(t, <<"text read", "callback">>)
          /\ Goto(t, "fetch")
          /\ UNCHANGED loc
     \/ JobCatch(t, <<>>, loc[t], ErrDriver)
  /\ UNCHANGED <<cfgVars, callVars, cacheVars, clockVars, req, browser, res>>

\* catch block: const pages = await browser.pages()
JobPages(t) ==
  /\ pc[t] = "pages"
  /\ \/ /\ Len(browserPages(t)) > 0
        /\ Ev(t, <<"error screenshot">>)
        /\ Goto(t, "catchShot")
        /\ UNCHANGED callbacks
     \/ \* browser.pages() rejected
        /\ sendCallback(t, FailurePayload(t, loc[t], loc[t].error))
        /\ Ev(t, <<"callback">>)
        /\ Goto(t, "fetch")
  /\ UNCHANGED <<cfgVars, callVars, cacheVars, clockVars, req, browser, loc, res>>

\* catch block: screenshotBase64 = await pages[0].screenshot(...), where
\* pages[0] is browserPages(t)[1]; ShotError is what it resolves to
JobCatchShot(t) ==
  /\ pc[t] = "catchShot"
  /\ \E l \in {loc[t], [loc[t] EXCEPT !.screenshotBase64 = ShotError]} :
       /\ loc' = [loc EXCEPT ![t] = l]
       /\ sendCallback(t, FailurePayload(t, l, l.error))
  /\ Ev(t, <<"callback">>)
  /\ Goto(t, "fetch")
  /\ UNCHANGED <<cfgVars, callVars, cacheVars, clockVars, req, browser, res>>

\* the fetch of sendCallback settles; its outcome is only logged
JobFetch(t) ==
  /\ pc[t] = "fetch"
  /\ Finally(t, <<>>)
  /\ UNCHANGED <<cfgVars, callVars, cacheVars, clockVars, req, browser, loc, res, callbacks>>

\* browser.close() settles
Close(t) ==
  /\ pc[t] = "close"
  /\ browser' = [browser EXCEPT ![t] = "closed"]
  /\ Ev(t, <<"return">>)
  /\ Goto(t, "done")
  /\ UNCHANGED <<cfgVars, callVars, cacheVars, clockVars, req, loc, res, callbacks>>


\* ------------------------------------------- /scrape and /login: catch
\* mutant: the browser is closed at the end of the try block only
HandlerCatchNoFinally(t, message) ==
  /\ res' = [res EXCEPT ![t] = Append(@, [status |-> 500, error |-> message])]
  /\ Ev(t, <<"throw", "res.500", "return">>)
  /\ Goto(t, "done")

\* catch (error) { res.status(500).json({success: false, error}) } finally
HandlerCatch(t, message) ==
  /\ res' = [res EXCEPT ![t] = Append(@, [status |-> 500, error |-> message])]
  /\ Finally(t, <<"throw", "res.500">>)

\* a step threw in request t, whose locals are l
Fail(t, l, message) ==
  IF req[t].kind = "job"
  THEN JobCatch(t, <<>>, l, message) /\ UNCHANGED res
  ELSE HandlerCatch(t, message) /\ loc' = [loc EXCEPT ![t] = l]
       /\ UNCHANGED callbacks

\* an await that either resolves, and then the next call is made, or rejects
Step(t, at, events, next) ==
  /\ pc[t] = at
  /\ \/ /\ Ev(t, events)
        /\ Goto(t, next)
        /\ UNCHANGED <<loc, res, callbacks>>
     \/ Fail(t, loc[t], ErrDriver)
  /\ UNCHANGED <<cfgVars, callVars, cacheVars, clockVars, req, browser>>

\* -------------------------------------------------------- loginToRelyHome
LoginErrorMessages ==
  << <<"invalid", "password">>, <<"invalid", "credentials">>,
     <<"incorrect", "password">>, <<"wrong", "password">>,
     <<"login", "failed">>, <<"authentication", "failed">>,
     <<"invalid", "username">>, <<"invalid", "email">>,
     <<"user", "not", "found">>, <<"account", "not", "found">>,
     <<"bad", "credentials">> >>

hasLoginError(pageText) == someIncluded(toLowerCase(pageText), LoginErrorMessages)

LongTextLength == 500

\* mutant: nothing but a URL that has left /login counts as success
hasLeftLoginUrl(finalUrl, pageText) == ~includes(finalUrl, <<"/", "login">>)

hasSuccessIndicator(finalUrl, pageText) ==
  LET lowerText == toLowerCase(pageText)
  IN  \/ ~includes(finalUrl, <<"/", "login">>)
      \/ includes(finalUrl, <<"dashboard">>)
      \/ includes(finalUrl, <<"available">>)
      \/ includes(finalUrl, <<"jobs">>)
      \/ includes(finalUrl, <<"home">>)
      \/ includes(finalUrl, <<"portal">>)
      \/ includes(lowerText, <<"welcome">>)
      \/ includes(lowerText, <<"dashboard">>)
      \/ includes(lowerText, <<"available", "jobs">>)
      \/ includes(lowerText, <<"logout">>)
      \/ includes(lowerText, <<"sign", "out">>)
      \/ includes(lowerText, <<"my", "account">>)
      \/ (StrLen(pageText) > LongTextLength
          /\ ~includes(lowerText, <<"password">>))

\* mutant: the success signals are looked at before the error phrases
loginVerdictSuccessFirst(finalUrl, pageText) ==
  IF hasSuccessIndicator(finalUrl, pageText) THEN "Succeeded"
  ELSE IF hasLoginError(pageText) THEN "Failed(InvalidCredentials)"
  ELSE "probe"

\* the classification after the text was read: the error phrases first, then
\* the success signals, else the password field is probed
loginVerdict(finalUrl, pageText) ==
  IF hasLoginError(pageText) THEN "Failed(InvalidCredentials)"
  ELSE IF hasSuccessIndicator(finalUrl, pageText) THEN "Succeeded"
  ELSE "probe"

\* mutant: staying on a /login URL is a failure, with or without a password
\* field
probeVerdictUrlOnly(stillOnLoginUrl, passwordStillVisible) ==
  IF stillOnLoginUrl THEN "Failed(StillOnLoginPage)"
  ELSE "Succeeded"

\* the classification after the probe of the password field
probeVerdict(stillOnLoginUrl, passwordStillVisible) ==
  IF stillOnLoginUrl /\ passwordStillVisible THEN "Failed(StillOnLoginPage)"
  ELSE "Succeeded"

LoginUrls == {UrlLogin, UrlDashboard, UrlSso}
LoginTexts == {TextInvalid, TextWelcome, TextPasswordForm, TextLong}

\* mutant: /login does not save the cookies after its login
LoginReturnPortalNoSave(t, events) ==
  IF req[t].kind = "login"
  THEN /\ Ev(t, events \o <<"login succeeded", "portal.links">>)
       /\ Goto(t, "portal.links")
       /\ UNCHANGED <<loc, res, callbacks>>
  ELSE /\ Ev(t, events \o <<"login succeeded", "page.cookies">>)
       /\ Goto(t, "cookies")
       /\ UNCHANGED <<loc, res, callbacks>>

\* mutant: the caller goes on after the login without saving the cookies
LoginReturnNoSave(t, events) ==
  LET next == CASE req[t].kind = "job" -> "page.goto#2"
                [] req[t].kind = "scrape" -> "scrape.goto#2"
                [] OTHER -> "portal.links"
  IN  /\ Ev(t, events \o <<"login succeeded", next>>)
      /\ Goto(t, next)
      /\ UNCHANGED <<loc, res, callbacks>>

\* loginToRelyHome returned: saveRelyhomeCookieCache calls page.cookies()
LoginReturn(t, events) ==
  /\ Ev(t, events \o <<"login succeeded", "page.cookies">>)
  /\ Goto(t, "cookies")
  /\ UNCHANGED <<loc, res, callbacks>>

LoginGoto(t) ==
  Step(t, "login.goto", <<"login form requested", "waitForSelector">>,
       "login.waitForSelector")

LoginWaitForSelector(t) ==
  Step(t, "login.waitForSelector", <<"FormLoaded", "probe fields">>, "login.probe")

\* mutant: only a missing username field stops the login
LoginProbeUsernameOnly(t) ==
  /\ pc[t] = "login.probe"
  /\ \E usernameField \in BOOLEAN, passwordField \in BOOLEAN :
       LET l == [loc[t] EXCEPT !.usernameField = usernameField,
                               !.passwordField = passwordField]
       IN  IF ~usernameField
           THEN Fail(t, l, ErrFields)
           ELSE /\ Ev(t, <<"fields found", "type username">>)
                /\ Goto(t, "login.typeUsername")
                /\ loc' = [loc EXCEPT ![t] = l]
                /\ UNCHANGED <<res, callbacks>>
  /\ UNCHANGED <<cfgVars, callVars, cacheVars, clockVars, req, browser>>

\* the two probing loops over page.$(selector); a rejected probe is skipped;
\* usernameField and passwordField are TRUE when an element was found
LoginProbe(t) ==
  /\ pc[t] = "login.probe"
  /\ \E usernameField \in BOOLEAN, passwordField \in BOOLEAN :
       LET l == [loc[t] EXCEPT !.usernameField = usernameField,
                               !.passwordField = passwordField]
       IN  IF ~usernameField \/ ~passwordField
           THEN Fail(t, l, ErrFields)
           ELSE /\ Ev(t, <<"fields found", "type username">>)
                /\ Goto(t, "login.typeUsername")
                /\ loc' = [loc EXCEPT ![t] = l]
                /\ UNCHANGED <<res, callbacks>>
  /\ UNCHANGED <<cfgVars, callVars, cacheVars, clockVars, req, browser>>

LoginTypeUsername(t) ==
  Step(t, "login.typeUsername", <<"username typed", "type password">>,
       "login.typePassword")

LoginTypePassword(t) ==
  Step(t, "login.typePassword",
       <<"password typed", "CredentialsEntered", "click login">>, "login.submit")

\* didSubmit = await page.evaluate(...)
LoginSubmit(t) ==
  /\ pc[t] = "login.submit"
  /\ \/ /\ \E clicked \in BOOLEAN :
             IF clicked
             THEN Ev(t, <<"login clicked", "Submitted", "wait navigation">>)
                  /\ \E navigating \in BOOLEAN :
                       Goto(t, IF navigating THEN "login.race.navigating"
                               ELSE "login.race.still")
             ELSE Ev(t, <<"press Enter">>) /\ Goto(t, "login.enter")
        /\ UNCHANGED <<loc, res, callbacks>>
     \/ Fail(t, loc[t], ErrDriver)
  /\ UNCHANGED <<cfgVars, callVars, cacheVars, clockVars, req, browser>>

LoginEnter(t) ==
  /\ pc[t] = "login.enter"
  /\ \/ /\ Ev(t, <<"Enter pressed", "Submitted", "wait navigation">>)
        /\ \E navigating \in BOOLEAN :
             Goto(t, IF navigating THEN "login.race.navigating"
                     ELSE "login.race.still")
        /\ UNCHANGED <<loc, res, callbacks>>
     \/ Fail(t, loc[t], ErrDriver)
  /\ UNCHANGED <<cfgVars, callVars, cacheVars, clockVars, req, browser>>

\* mutant: the cookies are cached once the wait is over, before the page is
\* classified
LoginRaceSaves(t) ==
  /\ pc[t] \in {"login.race.navigating", "login.race.still"}
  /\ relyhomeCookies' = Jar(t)
  /\ relyhomeCookiesUpdatedAt' = now
  /\ Ev(t, <<"wait over", "read login text">>)
  /\ Goto(t, "login.text")
  /\ UNCHANGED <<cfgVars, callVars, clockVars, req, browser, loc, res, callbacks>>

\* Promise.race([waitForNavigation(...).catch(() => {}), delay(15000)]), then
\* delay(3000)
LoginRace(t) ==
  /\ pc[t] \in {"login.race.navigating", "login.race.still"}
  /\ Ev(t, <<"wait over", "read login text">>)
  /\ Goto(t, "login.text")
  /\ UNCHANGED <<cfgVars, callVars, cacheVars, clockVars, req, browser, loc, res, callbacks>>

\* finalUrl = page.url(); pageText = await page.evaluate(...); classification
LoginText(t) ==
  /\ pc[t] = "login.text"
  /\ \/ \E finalUrl \in LoginUrls, pageText \in LoginTexts :
          IF loginVerdict(finalUrl, pageText) = "Failed(InvalidCredentials)"
          THEN Fail(t, loc[t], ErrInvalidCredentials)
          ELSE IF loginVerdict(finalUrl, pageText) = "Succeeded"
               THEN LoginReturn(t, <<"classified">>)
               ELSE /\ Ev(t, <<"classified", "probe password">>)
                    /\ Goto(t, "login.passwordVisible")
                    /\ loc' = [loc EXCEPT ![t].stillOnLoginUrl =
                                 includes(finalUrl, <<"/", "login">>)]
                    /\ UNCHANGED <<res, callbacks>>
     \/ Fail(t, loc[t], ErrDriver)
  /\ UNCHANGED <<cfgVars, callVars, cacheVars, clockVars, req, browser>>

\* passwordStillVisible = await page.$('input[type="password"]')
LoginPasswordVisible(t) ==
  /\ pc[t] = "login.passwordVisible"
  /\ \/ \E passwordStillVisible \in BOOLEAN :
          IF probeVerdict(loc[t].stillOnLoginUrl, passwordStillVisible)
               = "Failed(StillOnLoginPage)"
          THEN Fail(t, loc[t], ErrStillOnLogin)
          ELSE LoginReturn(t, <<>>)
     \/ Fail(t, loc[t], ErrDriver)
  /\ UNCHANGED <<cfgVars, callVars, cacheVars, clockVars, req, browser>>

\* ------------------------------------------------ saveRelyhomeCookieCache
\* mutant: the job discovers the slots on the page the login left
AfterSaveNoGoto(t) ==
  CASE req[t].kind = "job" -> "discover"
    [] req[t].kind = "scrape" -> "scrape.goto#2"
    [] OTHER -> "portal.links"

\* the call that follows `await saveRelyhomeCookieCache(page)`
AfterSave(t) ==
  CASE req[t].kind = "job" -> "page.goto#2"
    [] req[t].kind = "scrape" -> "scrape.goto#2"
    [] OTHER -> "portal.links"

CookieReads(t) == {<<>>, Jar(t)}

\* mutant: the cookies are replaced and the clock of the cache is left alone
SaveCookiesOldStamp(t) ==
  /\ pc[t] = "cookies"
  /\ \/ \E cookies \in CookieReads(t) :
          IF Len(cookies) > 0
          THEN /\ relyhomeCookies' = cookies
               /\ UNCHANGED relyhomeCookiesUpdatedAt
               /\ Ev(t, <<"cache saved", AfterSave(t)>>)
          ELSE /\ UNCHANGED cacheVars
               /\ Ev(t, <<"no cookies", AfterSave(t)>>)
     \/ /\ UNCHANGED cacheVars
        /\ Ev(t, <<"cookies unreadable", AfterSave(t)>>)
  /\ Goto(t, AfterSave(t))
  /\ UNCHANGED <<cfgVars, callVars, clockVars, req, browser, loc, res, callbacks>>

\* mutant: whatever was read replaces the cache, an empty list too
SaveCookiesAlways(t) ==
  /\ pc[t] = "cookies"
  /\ \/ \E cookies \in CookieReads(t) :
          /\ relyhomeCookies' = cookies
          /\ relyhomeCookiesUpdatedAt' = now
          /\ Ev(t, <<IF Len(cookies) > 0 THEN "cache saved" ELSE "no cookies",
                     AfterSave(t)>>)
     \/ /\ UNCHANGED cacheVars
        /\ Ev(t, <<"cookies unreadable", AfterSave(t)>>)
  /\ Goto(t, AfterSave(t))
  /\ UNCHANGED <<cfgVars, callVars, clockVars, req, browser, loc, res, callbacks>>

\* mutant: a save leaves alone a cache that already holds cookies
SaveCookiesFirstWins(t) ==
  /\ pc[t] = "cookies"
  /\ IF relyhomeCookies = NoCookies
     THEN /\ relyhomeCookies' = Jar(t)
          /\ relyhomeCookiesUpdatedAt' = now
     ELSE UNCHANGED cacheVars
  /\ Ev(t, <<"cache saved", AfterSave(t)>>)
  /\ Goto(t, AfterSave(t))
  /\ UNCHANGED <<cfgVars, callVars, clockVars, req, browser, loc, res, callbacks>>

\* page.cookies() settles: a non-empty list replaces the cache, anything else
\* (an empty list, a rejection) leaves it alone
SaveCookies(t) ==
  /\ pc[t] = "cookies"
  /\ \/ \E cookies \in CookieReads(t) :
          IF Len(cookies) > 0
          THEN /\ relyhomeCookies' = cookies
               /\ relyhomeCookiesUpdatedAt' = now
               /\ Ev(t, <<"cache saved", AfterSave(t)>>)
          ELSE /\ UNCHANGED cacheVars
               /\ Ev(t, <<"no cookies", AfterSave(t)>>)
     \/ /\ UNCHANGED cacheVars
        /\ Ev(t, <<"cookies unreadable", AfterSave(t)>>)
  /\ Goto(t, AfterSave(t))
  /\ UNCHANGED <<cfgVars, callVars, clockVars, req, browser, loc, res, callbacks>>


\* ---------------------------------------------------------- POST /scrape
ListingTexts == {TextLoginPage, TextAcceptPage}
RequestCredentials ==
  {[username |-> "", password |-> ""], [username |-> "u2", password |-> "p2"]}

\* a || b on strings
Or(a, b) == IF a = "" THEN b ELSE a

\* POST /scrape with credentials drawn from creds
ScrapeWith(t, creds) ==
  /\ pc[t] = "idle"
  /\ \E secret \in Secrets, url \in {"", "listing_url"}, cred \in creds :
       LET body == [kind |-> "scrape", url |-> url, secret |-> secret,
                    username |-> cred.username, password |-> cred.password]
       IN  /\ req' = [req EXCEPT ![t] = body]
           /\ IF secretRejected(secret)
              THEN /\ res' = [res EXCEPT ![t] =
                               Append(@, [status |-> 401, error |-> "Invalid secret"])]
                   /\ Ev(t, <<"res.401">>)
                   /\ Goto(t, "done")
              ELSE IF url = ""
              THEN /\ res' = [res EXCEPT ![t] =
                               Append(@, [status |-> 400, error |-> "URL required"])]
                   /\ Ev(t, <<"res.400">>)
                   /\ Goto(t, "done")
              ELSE /\ Ev(t, <<"puppeteer.launch">>)
                   /\ Goto(t, "scrape.launch")
                   /\ UNCHANGED res
  /\ UNCHANGED <<cfgVars, callVars, cacheVars, clockVars, browser, loc, callbacks>>

Scrape(t) == ScrapeWith(t, RequestCredentials)

ScrapeLaunch(t) ==
  /\ pc[t] = "scrape.launch"
  /\ \/ /\ browser' = [browser EXCEPT ![t] = "open"]
        /\ Ev(t, <<"browser.newPage">>)
        /\ Goto(t, "scrape.newPage")
        /\ UNCHANGED <<loc, res, callbacks>>
     \/ /\ Fail(t, loc[t], ErrDriver)
        /\ UNCHANGED browser
  /\ UNCHANGED <<cfgVars, callVars, cacheVars, clockVars, req>>

ScrapeNewPage(t) ==
  Step(t, "scrape.newPage", <<"page.setViewport">>, "scrape.setViewport")

ScrapeSetViewport(t) ==
  /\ pc[t] = "scrape.setViewport"
  /\ \/ /\ ApplyStart(t, "scrape.goto")
        /\ UNCHANGED <<loc, res, callbacks>>
     \/ Fail(t, loc[t], ErrDriver)
  /\ UNCHANGED <<cfgVars, callVars, cacheVars, clockVars, req, browser>>

ScrapeGoto(t) ==
  Step(t, "scrape.goto", <<"extractJobData">>, "scrape.extract")

\* ({ markdown, jobLinks } = await extractJobData(page))
ScrapeExtractAt(t, at, next) ==
  /\ pc[t] = at
  /\ \/ \E markdown \in ListingTexts :
          /\ loc' = [loc EXCEPT ![t].markdown = markdown]
          /\ Ev(t, <<"extracted", "page.content">>)
          /\ Goto(t, next)
          /\ UNCHANGED <<res, callbacks>>
     \/ Fail(t, loc[t], ErrDriver)
  /\ UNCHANGED <<cfgVars, callVars, cacheVars, clockVars, req, browser>>

ScrapeExtract(t) == ScrapeExtractAt(t, "scrape.extract", "scrape.content")

ScrapeRespond(t) ==
  /\ res' = [res EXCEPT ![t] =
               Append(@, [status |-> 200, success |-> TRUE,
                          raw_markdown |-> loc[t].markdown])]
  /\ Finally(t, <<"res.json">>)
  /\ UNCHANGED <<loc, callbacks>>

\* html = await page.content(), then the expiry check; u and p are the
\* credentials loginToRelyHome is called with
ScrapeContent(t) ==
  /\ pc[t] = "scrape.content"
  /\ \/ IF looksLikeRelyhomeSessionExpired(loc[t].markdown)
        THEN LET l == [loc[t] EXCEPT
                         !.u = Or(req[t].username, RELYHOME_USERNAME),
                         !.p = Or(req[t].password, RELYHOME_PASSWORD)]
             IN  IF credentialsMissing(l.u, l.p)
                 THEN Fail(t, l, ErrScrapeNoCredentials)
                 ELSE /\ Ev(t, <<"loginToRelyHome">>)
                      /\ Goto(t, "login.goto")
                      /\ loc' = [loc EXCEPT ![t] = l]
                      /\ UNCHANGED <<res, callbacks>>
        ELSE ScrapeRespond(t)
     \/ Fail(t, loc[t], ErrDriver)
  /\ UNCHANGED <<cfgVars, callVars, cacheVars, clockVars, req, browser>>

ScrapeGoto2(t) ==
  Step(t, "scrape.goto#2", <<"extractJobData">>, "scrape.extract#2")

ScrapeExtract2(t) == ScrapeExtractAt(t, "scrape.extract#2", "scrape.content#2")

\* mutant: the second extraction is checked for an expired session as well
ScrapeContent2Rechecks(t) ==
  /\ pc[t] = "scrape.content#2"
  /\ \/ IF looksLikeRelyhomeSessionExpired(loc[t].markdown)
        THEN /\ Ev(t, <<"loginToRelyHome">>)
             /\ Goto(t, "login.goto")
             /\ UNCHANGED <<loc, res, callbacks>>
        ELSE ScrapeRespond(t)
     \/ Fail(t, loc[t], ErrDriver)
  /\ UNCHANGED <<cfgVars, callVars, cacheVars, clockVars, req, browser>>

\* html = await page.content() after the second extraction, then res.json
ScrapeContent2(t) ==
  /\ pc[t] = "scrape.content#2"
  /\ \/ ScrapeRespond(t)
     \/ Fail(t, loc[t], ErrDriver)
  /\ UNCHANGED <<cfgVars, callVars, cacheVars, clockVars, req, browser>>

\* ----------------------------------------------------------- POST /login
UrlRelative == <<"/", "available", "-swo.php?", "vid=", "&", "exp=">>
PortalUrls == {UrlLogin, UrlOther, UrlTokenized}
FoundUrls == {NoUrl, UrlTokenized, UrlRelative}

hasVid(url) == includes(url, <<"vid=">>)
hasExp(url) == includes(url, <<"exp=">>)

LoginRequest(t) ==
  /\ pc[t] = "idle"
  /\ \E secret \in Secrets, cred \in RequestCredentials :
       LET body == [kind |-> "login", secret |-> secret,
                    username |-> cred.username, password |-> cred.password]
       IN  /\ req' = [req EXCEPT ![t] = body]
           /\ IF secretRejected(secret)
              THEN /\ res' = [res EXCEPT ![t] =
                               Append(@, [status |-> 401, error |-> "Invalid secret"])]
                   /\ Ev(t, <<"res.401">>)
                   /\ Goto(t, "done")
              ELSE IF credentialsMissing(cred.username, cred.password)
              THEN /\ res' = [res EXCEPT ![t] =
                               Append(@, [status |-> 400,
                                          error |-> "Username and password required"])]
                   /\ Ev(t, <<"res.400">>)
                   /\ Goto(t, "done")
              ELSE /\ Ev(t, <<"puppeteer.launch">>)
                   /\ Goto(t, "portal.launch")
                   /\ UNCHANGED res
  /\ UNCHANGED <<cfgVars, callVars, cacheVars, clockVars, browser, loc, callbacks>>

PortalLaunch(t) ==
  /\ pc[t] = "portal.launch"
  /\ \/ /\ browser' = [browser EXCEPT ![t] = "open"]
        /\ Ev(t, <<"browser.newPage">>)
        /\ Goto(t, "portal.newPage")
        /\ UNCHANGED <<loc, res, callbacks>>
     \/ /\ Fail(t, loc[t], ErrDriver)
        /\ UNCHANGED browser
  /\ UNCHANGED <<cfgVars, callVars, cacheVars, clockVars, req>>

PortalNewPage(t) ==
  Step(t, "portal.newPage", <<"page.setViewport">>, "portal.setViewport")

PortalSetViewport(t) ==
  Step(t, "portal.setViewport", <<"loginToRelyHome">>, "login.goto")

\* Step 7: final validation and the response
PortalRespond(t, l) ==
  IF l.portalUrl # NoUrl /\ includes(l.portalUrl, <<"/", "login">>)
  THEN Fail(t, l, ErrPortalLogin)
  ELSE /\ res' = [res EXCEPT ![t] =
                    Append(@, [status |-> 200, success |-> TRUE,
                               portal_url |-> l.portalUrl,
                               has_tokens |-> (l.portalUrl # NoUrl
                                               /\ hasVid(l.portalUrl)
                                               /\ hasExp(l.portalUrl))])]
       /\ Finally(t, <<"res.json">>)
       /\ loc' = [loc EXCEPT ![t] = l]
       /\ UNCHANGED callbacks

\* Step 6: search the page for tokenized URLs
PortalSearch(t, l) ==
  IF ~hasVid(l.portalUrl) \/ ~hasExp(l.portalUrl)
  THEN /\ Ev(t, <<"page.content">>)
       /\ Goto(t, "portal.content")
       /\ loc' = [loc EXCEPT ![t] = l]
       /\ UNCHANGED <<res, callbacks>>
  ELSE PortalRespond(t, l)

\* Step 5: force navigation to available-swo.php
PortalForce(t, l) ==
  IF l.portalUrl = NoUrl \/ (~hasVid(l.portalUrl) /\ ~hasExp(l.portalUrl))
  THEN /\ Ev(t, <<"force navigation">>)
       /\ Goto(t, "portal.force")
       /\ loc' = [loc EXCEPT ![t] = l]
       /\ UNCHANGED <<res, callbacks>>
  ELSE PortalSearch(t, l)

\* Steps 2-4: allLinksInfo = await page.evaluate(...)
PortalLinks(t) ==
  /\ pc[t] = "portal.links"
  /\ \/ \E tokenizedLink \in {NoUrl, UrlTokenized} :
          IF tokenizedLink # NoUrl
          THEN PortalForce(t, [loc[t] EXCEPT !.portalUrl = tokenizedLink])
          ELSE /\ Ev(t, <<"click navigation">>)
               /\ Goto(t, "portal.click")
               /\ UNCHANGED <<loc, res, callbacks>>
     \/ Fail(t, loc[t], ErrDriver)
  /\ UNCHANGED <<cfgVars, callVars, cacheVars, clockVars, req, browser>>

PortalClick(t) ==
  /\ pc[t] = "portal.click"
  /\ \/ \E clicked \in BOOLEAN :
          IF clicked
          THEN /\ Ev(t, <<"wait navigation">>)
               /\ Goto(t, "portal.race")
               /\ UNCHANGED <<loc, res, callbacks>>
          ELSE PortalForce(t, loc[t])
     \/ Fail(t, loc[t], ErrDriver)
  /\ UNCHANGED <<cfgVars, callVars, cacheVars, clockVars, req, browser>>

\* the race and the delay after the click; portalUrl = page.url()
PortalRace(t) ==
  /\ pc[t] = "portal.race"
  /\ \E url \in PortalUrls : PortalForce(t, [loc[t] EXCEPT !.portalUrl = url])
  /\ UNCHANGED <<cfgVars, callVars, cacheVars, clockVars, req, browser>>

PortalForced(t) ==
  /\ pc[t] = "portal.force"
  /\ \/ \E url \in PortalUrls : PortalSearch(t, [loc[t] EXCEPT !.portalUrl = url])
     \/ Fail(t, loc[t], ErrDriver)
  /\ UNCHANGED <<cfgVars, callVars, cacheVars, clockVars, req, browser>>

PortalContent(t) ==
  Step(t, "portal.content", <<"search tokenized url">>, "portal.find")

\* portalUrl = foundUrl.url, made absolute when it does not start with http
normalizeUrl(url) ==
  IF Head(url) = Head(Origin) THEN url
  ELSE Origin \o (IF Head(url) = "/" THEN <<>> ELSE <<"/">>)
       \o url

PortalFind(t) ==
  /\ pc[t] = "portal.find"
  /\ \/ \E foundUrl \in FoundUrls :
          PortalRespond(t, IF foundUrl = NoUrl THEN loc[t]
                           ELSE [loc[t] EXCEPT !.portalUrl = normalizeUrl(foundUrl)])
     \/ Fail(t, loc[t], ErrDriver)
  /\ UNCHANGED <<cfgVars, callVars, cacheVars, clockVars, req, browser>>

\* ------------------------------------------------------------- the system
JobStep(t) ==
  \/ JobLaunch(t) \/ JobNewPage(t) \/ JobSetViewport(t) \/ JobGoto(t)
  \/ JobFirstText(t) \/ JobGoto2(t) \/ JobDiscover(t) \/ JobClickSlot(t)
  \/ JobSubmit(t) \/ JobRace(t) \/ JobScreenshot(t) \/ JobPageText(t)
  \/ JobPages(t) \/ JobCatchShot(t) \/ JobFetch(t)

LoginStep(t) ==
  \/ LoginGoto(t) \/ LoginWaitForSelector(t) \/ LoginProbe(t)
  \/ LoginTypeUsername(t) \/ LoginTypePassword(t) \/ LoginSubmit(t)
  \/ LoginEnter(t) \/ LoginRace(t) \/ LoginText(t) \/ LoginPasswordVisible(t)

ScrapeStep(t) ==
  \/ ScrapeLaunch(t) \/ ScrapeNewPage(t) \/ ScrapeSetViewport(t)
  \/ ScrapeGoto(t) \/ ScrapeExtract(t) \/ ScrapeContent(t) \/ ScrapeGoto2(t)
  \/ ScrapeExtract2(t) \/ ScrapeContent2(t)

PortalStep(t) ==
  \/ PortalLaunch(t) \/ PortalNewPage(t) \/ PortalSetViewport(t)
  \/ PortalLinks(t) \/ PortalClick(t) \/ PortalRace(t) \/ PortalForced(t)
  \/ PortalContent(t) \/ PortalFind(t)

\* one step of the task of request t
TaskStep(t) ==
  \/ JobStep(t) \/ LoginStep(t) \/ ScrapeStep(t) \/ PortalStep(t)
  \/ SetCookie(t) \/ SaveCookies(t) \/ Close(t)

\* the HTTP exchange of request t is over and its task has returned
Recycle(t) ==
  /\ pc[t] = "done"
  /\ pc' = [pc EXCEPT ![t] = "idle"]
  /\ req' = [req EXCEPT ![t] = NoReq]
  /\ browser' = [browser EXCEPT ![t] = Null]
  /\ loc' = [loc EXCEPT ![t] = InitLoc]
  /\ res' = [res EXCEPT ![t] = <<>>]
  /\ callbacks' = [callbacks EXCEPT ![t] = <<>>]
  /\ trace' = [trace EXCEPT ![t] = <<>>]
  /\ UNCHANGED <<cfgVars, callVars, cacheVars, clockVars>>

\* no request is in flight
Quiet == \A t \in Tasks : pc[t] = "idle"

Next ==
  \/ Tick
  \/ \E t \in Tasks : Quiet /\ Accept(t)
  \/ \E t \in Tasks : Quiet /\ Scrape(t)
  \/ \E t \in Tasks : Quiet /\ LoginRequest(t)
  \/ \E t \in Tasks : TaskStep(t)
  \/ \E t \in Tasks : Recycle(t)

Spec == Init /\ [][Next]_vars

\* the worker when every job asks for Monday, 9:00am, and a scrape request
\* may carry a username without a password
ScenarioA == [days |-> <<"mon">>, slots |-> <<"9:00am">>]
UsernameOnly == [username |-> "u2", password |-> ""]

ScenarioNext ==
  \/ Tick
  \/ \E t \in Tasks : Quiet /\ AcceptWith(t, {ScenarioA})
  \/ \E t \in Tasks : Quiet /\ ScrapeWith(t, RequestCredentials \cup {UsernameOnly})
  \/ \E t \in Tasks : Quiet /\ LoginRequest(t)
  \/ \E t \in Tasks : TaskStep(t)
  \/ \E t \in Tasks : Recycle(t)

ScenarioSpec == Init /\ [][ScenarioNext]_vars

\* ------------------------------------- the cache under overlapping requests
\* Two handlers run at a time. Each awaits applyRelyhomeCookieCache(page) and
\* may later await saveRelyhomeCookieCache(page), as processJob and /scrape
\* do; the steps are the settlements of page.setCookie and page.cookies, in
\* every order. What a handler does between the two calls touches neither
\* relyhomeCookies nor relyhomeCookiesUpdatedAt and is left out.
ConcTasks == 1..2

ConcInit ==
  /\ StartedIn({[secret |-> "", username |-> "user", password |-> "pass"]},
               ConcTasks)
  /\ call = NoCall

\* await applyRelyhomeCookieCache(page), in processJob or in /scrape;
\* setCookieArgs are the cookies spread into the call of page.setCookie
CallApply(t) ==
  /\ pc[t] = "idle"
  /\ \E kind \in {"job", "scrape"} :
       /\ req' = [req EXCEPT ![t] = [kind |-> kind]]
       /\ ApplyStart(t, IF kind = "job" THEN "page.goto" ELSE "scrape.goto")
  /\ loc' = [loc EXCEPT ![t].setCookieArgs =
               IF hasFreshCookieCache THEN relyhomeCookies ELSE NoCookies]
  /\ UNCHANGED <<cfgVars, callVars, cacheVars, clockVars, browser, res,
                 callbacks>>

\* await saveRelyhomeCookieCache(page), after a login
CallSave(t) ==
  /\ pc[t] = AfterApply(t)
  /\ Ev(t, <<"page.cookies">>)
  /\ Goto(t, "cookies")
  /\ UNCHANGED <<cfgVars, callVars, cacheVars, clockVars, req, browser, loc, res,
                 callbacks>>

\* the handler ends, with or without a save
CallerReturns(t) ==
  /\ pc[t] \in {AfterApply(t), AfterSave(t)}
  /\ Ev(t, <<"return">>)
  /\ Goto(t, "done")
  /\ UNCHANGED <<cfgVars, callVars, cacheVars, clockVars, req, browser, loc, res,
                 callbacks>>

ConcNext ==
  \/ Tick
  \/ \E t \in ConcTasks : CallApply(t)
  \/ \E t \in ConcTasks : SetCookie(t)
  \/ \E t \in ConcTasks : CallSave(t)
  \/ \E t \in ConcTasks : SaveCookies(t)
  \/ \E t \in ConcTasks : CallerReturns(t)
  \/ \E t \in ConcTasks : Recycle(t)

ConcSpec == ConcInit /\ [][ConcNext]_vars

\* the event loop runs every task whose awaited operation has settled
FairSpec == Spec /\ \A t \in Tasks : WF_vars(TaskStep(t))

\* ------------------------------------------- functions called on their own
\* page texts around the length threshold and the expiry phrases
ExpiryTokens ==
  {"hi", "<filler-39>", "<filler-40>", "<blanks-50>", "Login", "sign", "in",
   "session", "expired", "please", "log", "authentication", "required"}

\* post-login page texts: an error phrase, the success words, a long text
ClassifyTokens ==
  {"Invalid", "credentials", "Welcome", "dashboard", "available", "jobs",
   "logout", "sign", "out", "my", "account", "password", "<filler-600>",
   "<filler-50>"}

\* post-login URLs: on the portal, and on another host with and without
\* '/login' and with each of the words the code looks for
ClassifyUrls ==
  {UrlLogin, UrlSso, <<"https://sso.example", "/", "index.php">>}
  \cup {UrlSso \o <<"?next=", w>> :
          w \in {"dashboard", "available", "jobs", "home", "portal"}}

\* a slot without a day name, and one that shares 11:00am with SlotMon and
\* 1:00pm with SlotTue
SlotBare == [value |-> "v-bare", label |-> <<"9:00am-11:00am">>,
             id |-> "", name |-> "appttime"]
SlotLate == [value |-> "v-late", label |-> <<"Tuesday", "11:00am-1:00pm">>,
             id |-> "slot4", name |-> "appttime"]
FnSlots == {SlotMon, SlotTue, SlotBare, SlotLate}

\* preferred days: an abbreviation, a full name in capitals, another day
DayTokens == {"mon", "Monday", "tue"}
\* preferred times: starts and ends of the ranges above
TimeTokens == {"9:00am", "11:00am", "1:00pm"}

\* findBestSlot is called, and then called again on the same arguments
TimesCalled == 2

\* a list of n preferred times: a time no slot is offered at, n - 1 times,
\* and then the time last
UnmatchedThen(n, last) == [i \in 1..n |-> IF i < n THEN "7:00am" ELSE last]

\* the elements a radio may have around it: none, one whose text is white
\* space, one with a text
NoElement == [present |-> FALSE, text |-> <<>>]
LabelElements ==
  {NoElement, [present |-> TRUE, text |-> <<"<blanks-50>">>],
   [present |-> TRUE, text |-> <<"Monday", "9:00am-11:00am", "<blanks-50>">>]}
ParentElements ==
  {NoElement, [present |-> TRUE, text |-> <<"<blanks-50>">>],
   [present |-> TRUE, text |-> <<"<blanks-50>", "Tuesday", "1:00pm-3:00pm">>]}

\* the radio inputs of a page: with and without value, id, label and parent
RadioButtons ==
  [value : {"", "v-mon"}, id : {"", "slot1"}, name : {"appttime"},
   label : LabelElements, parent : ParentElements]

progVars == <<cfgVars, cacheVars, clockVars, pc, req, browser, loc, res,
              callbacks, trace>>

\* the worker is idle, started without a secret and without a password, and
\* one function is called: on a text of at most MaxTextLen tokens, and for the
\* classification on a URL and with or without a password field as well; or
\* findBestSlot on at most MaxSlots slots and MaxPrefs preferences of each kind,
\* or on up to MaxPrefLen preferred times
FnInit ==
  /\ ProgramInit /\ WORKER_SECRET = "" /\ RELYHOME_PASSWORD = ""
  /\ \/ \E n \in 0..MaxTextLen :
          \/ \E text \in [1..n -> ExpiryTokens] :
               call = [fn |-> "looksLikeRelyhomeSessionExpired", text |-> text,
                       pending |-> TRUE]
          \/ \E text \in [1..n -> ClassifyTokens], u \in ClassifyUrls, v \in BOOLEAN :
               call = [fn |-> "loginToRelyHome", finalUrl |-> u, pageText |-> text,
                       passwordStillVisible |-> v, pending |-> TRUE]
     \/ \E k \in 0..MaxSlots, m \in 0..MaxPrefs, n \in 0..MaxPrefs :
          \E slots \in [1..k -> FnSlots], days \in [1..m -> DayTokens],
             times \in [1..n -> TimeTokens] :
            call = [fn |-> "findBestSlot", availableSlots |-> slots,
                    preferredDays |-> days, preferredSlots |-> times,
                    returned |-> <<>>]
     \/ \E k \in 0..MaxSlots, n \in 1..MaxPrefLen, last \in TimeTokens :
          \E slots \in [1..k -> FnSlots] :
            call = [fn |-> "findBestSlot", availableSlots |-> slots,
                    preferredDays |-> <<>>,
                    preferredSlots |-> UnmatchedThen(n, last),
                    returned |-> <<>>]
     \/ \E k \in 0..MaxSlots :
          \E radioButtons \in [1..k -> RadioButtons] :
            call = [fn |-> "slotsOf", radioButtons |-> radioButtons,
                    pending |-> TRUE]

CallLooksExpired ==
  /\ call.fn = "looksLikeRelyhomeSessionExpired" /\ call.pending
  /\ call' = [fn |-> call.fn, text |-> call.text, pending |-> FALSE,
              expired |-> looksLikeRelyhomeSessionExpired(call.text)]
  /\ UNCHANGED progVars

\* loginToRelyHome from the read of the page text to its return or throw
CallClassifyLogin ==
  /\ call.fn = "loginToRelyHome" /\ call.pending
  /\ LET verdict == loginVerdict(call.finalUrl, call.pageText)
     IN  call' = [fn |-> call.fn, finalUrl |-> call.finalUrl,
                  pageText |-> call.pageText,
                  passwordStillVisible |-> call.passwordStillVisible,
                  pending |-> FALSE,
                  probed |-> verdict = "probe",
                  outcome |-> IF verdict = "probe"
                              THEN probeVerdict(includes(call.finalUrl, <<"/", "login">>),
                                                call.passwordStillVisible)
                              ELSE verdict]
  /\ UNCHANGED progVars

\* findBestSlot(availableSlots, preferredDays, preferredSlots): the array it
\* scores (before the sort) and the slot it returns
CallFindBestSlot ==
  /\ call.fn = "findBestSlot" /\ Len(call.returned) < TimesCalled
  /\ call' = [call EXCEPT !.returned =
                Append(@, [scoredSlots |-> scoredSlots(call.availableSlots,
                                                       call.preferredDays,
                                                       call.preferredSlots),
                           bestSlot |-> findBestSlot(call.availableSlots,
                                                     call.preferredDays,
                                                     call.preferredSlots)])]
  /\ UNCHANGED progVars

\* the discovery function is evaluated on the radio inputs of a page
CallSlotsOf ==
  /\ call.fn = "slotsOf" /\ call.pending
  /\ call' = [fn |-> call.fn, radioButtons |-> call.radioButtons,
              pending |-> FALSE, availableSlots |-> slotsOf(call.radioButtons)]
  /\ UNCHANGED progVars

FnNext ==
  CallLooksExpired \/ CallClassifyLogin \/ CallFindBestSlot \/ CallSlotsOf

FnSpec == FnInit /\ [][FnNext]_vars


\* ================================================================ claims
Has(t, e) == \E i \in 1..Len(trace[t]) : trace[t][i] = e
Count(t, e) == Cardinality({i \in 1..Len(trace[t]) : trace[t][i] = e})
IsJob(t) == req[t].kind = "job"
Accepted(t) == IsJob(t) /\ Has(t, "processJob")

\* C1: an accepted job never has more than one callback, and once processJob
\* has returned it has sent exactly one, whichever step threw
C1_ExactlyOneCallback ==
  \A t \in Tasks :
    Accepted(t) =>
      /\ Len(callbacks[t]) <= 1
      /\ (pc[t] \in {"fetch", "close", "done"} => Len(callbacks[t]) = 1)
      /\ Count(t, "callback") = Len(callbacks[t])

\* a job whose launch threw has returned, having sent its one callback
C1_Witness ==
  \E t \in Tasks :
    /\ Accepted(t) /\ pc[t] = "done" /\ browser[t] = Null
    /\ Len(callbacks[t]) = 1 /\ ~callbacks[t][1].success

\* C2: under FairSpec a job that was started reaches "done" with its callback
\* sent, and no step takes a running task back to "idle" or changes its request
C2_JobCompletes ==
  /\ \A t \in Tasks :
       (IsJob(t) /\ pc[t] = "launch")
         ~> (IsJob(t) /\ pc[t] = "done" /\ Len(callbacks[t]) = 1)
  /\ [][\A t \in Tasks :
          pc[t] \notin {"idle", "done"} => (pc'[t] # "idle" /\ req'[t] = req[t])]_vars

\* a job returned after the race in which no navigation happened
C2_Witness ==
  \E t \in Tasks :
    /\ IsJob(t) /\ pc[t] = "done" /\ Has(t, "delay elapsed")
    /\ Len(callbacks[t]) = 1 /\ callbacks[t][1].success

\* C3: when the task of a request has returned, its browser was closed once if
\* the launch succeeded, and nothing was closed if the launch failed
C3_BrowserClosed ==
  \A t \in Tasks :
    pc[t] = "done" =>
      IF Has(t, "browser.newPage")
      THEN browser[t] = "closed" /\ Count(t, "browser.close") = 1
      ELSE browser[t] = Null /\ Count(t, "browser.close") = 0

\* a /scrape request failed after its browser was launched, and closed it
C3_Witness ==
  \E t \in Tasks :
    /\ req[t].kind = "scrape" /\ pc[t] = "done" /\ browser[t] = "closed"
    /\ Len(res[t]) = 1 /\ res[t][1].status = 500

\* C4: a job whose secret differs from the configured one gets 401 and does
\* nothing else; any other job is acknowledged before processJob is called,
\* and its one response carries no outcome
C4_AcceptGate ==
  \A t \in Tasks :
    IsJob(t) =>
      IF WORKER_SECRET # "" /\ req[t].secret # WORKER_SECRET
      THEN /\ res[t] = <<[status |-> 401, error |-> "Invalid secret"]>>
           /\ trace[t] = <<"res.401">>
           /\ callbacks[t] = <<>>
           /\ browser[t] = Null
           /\ pc[t] = "done"
      ELSE /\ res[t] = <<[status |-> 200, body |-> "processing",
                          job_id |-> req[t].job_id, task_id |-> req[t].task_id]>>
           /\ Len(trace[t]) >= 2
           /\ trace[t][1] = "res.json"
           /\ trace[t][2] = "processJob"
           /\ Count(t, "res.json") = 1

\* a job was turned away with 401
C4_Witness ==
  \E t \in Tasks :
    /\ IsJob(t) /\ WORKER_SECRET = "s1" /\ req[t].secret = "s2"
    /\ pc[t] = "done" /\ res[t][1].status = 401

\* C5: in every payload the selection fields and the confirmation message are
\* null unless success, error is null exactly when success, and the secret is
\* the request's
C5_PayloadShape ==
  \A t \in Tasks : \A i \in 1..Len(callbacks[t]) :
    LET p == callbacks[t][i]
    IN  /\ (\/ p.selected_slot # Null \/ p.selected_date # Null
            \/ p.selected_day # Null \/ p.confirmation_message # Null)
             => p.success
        /\ (p.error # Null) <=> ~p.success
        /\ p.secret = req[t].secret
        /\ p.job_id = req[t].job_id /\ p.task_id = req[t].task_id

\* a failure payload was sent after a slot had been chosen, with another
\* secret than the configured... none is configured
C5_Witness ==
  \E t \in Tasks :
    /\ Len(callbacks[t]) = 1 /\ ~callbacks[t][1].success
    /\ loc[t].bestSlot # NoSlot /\ callbacks[t][1].secret = "s2"

\* C6: once the text after the submit was read, the one callback reports
\* success, with or without a confirmation word; the word decides only whether
\* the message is "Job accepted" or "Submitted"
C6_ConfirmationIsSoft ==
  \A t \in Tasks :
    Has(t, "text read") =>
      /\ Has(t, "submit clicked")
      /\ Len(callbacks[t]) = 1
      /\ LET p == callbacks[t][1]
         IN  /\ p.success
             /\ p.error = Null
             /\ p.confirmation_message \in {"Job accepted", "Submitted"}
             /\ p.screenshot_base64 = ShotSubmit
             /\ p.selected_slot # Null

\* the text held no confirmation word and the job succeeded
C6_Witness ==
  \E t \in Tasks :
    /\ Has(t, "text read") /\ Len(callbacks[t]) = 1
    /\ callbacks[t][1].success
    /\ callbacks[t][1].confirmation_message = "Submitted"

\* C7 as claimed: a job whose submit control was clicked reports success
C7_SubmittedNeverFailed ==
  \A t \in Tasks :
    Has(t, "submit clicked") =>
      \A i \in 1..Len(callbacks[t]) : callbacks[t][i].success

\* C7 as amended: a job whose submit control was clicked reports success
\* exactly when the screenshot and the read of the page text that follow the
\* click both completed; if one of them throws it reports failure with that
\* error
C7_SubmittedSucceedsIfRead ==
  \A t \in Tasks :
    (Has(t, "submit clicked") /\ Len(callbacks[t]) > 0) =>
      /\ callbacks[t][1].success <=>
           (Has(t, "screenshot taken") /\ Has(t, "text read"))
      /\ ~callbacks[t][1].success => callbacks[t][1].error = ErrDriver

\* the submit control was clicked, the screenshot threw, the job reports failure
C7_Witness ==
  \E t \in Tasks :
    /\ Has(t, "submit clicked") /\ ~Has(t, "screenshot taken")
    /\ Len(callbacks[t]) = 1 /\ ~callbacks[t][1].success

\* C8: when discovery returned no slot, nothing is clicked, and the callback
\* reports failure with the no-slots error and an empty available_slots
C8_NoSlots ==
  \A t \in Tasks :
    (Has(t, "discovered") /\ loc[t].availableSlots = <<>>) =>
      /\ ~Has(t, "click slot") /\ ~Has(t, "radio clicked")
      /\ ~Has(t, "click submit") /\ ~Has(t, "submit clicked")
      /\ pc[t] \in {"pages", "catchShot", "fetch", "close", "done"}
      /\ (pc[t] \in {"fetch", "close", "done"} => Len(callbacks[t]) = 1)
      /\ \A i \in 1..Len(callbacks[t]) :
           /\ ~callbacks[t][i].success
           /\ callbacks[t][i].error = ErrNoSlots
           /\ callbacks[t][i].available_slots = <<>>

\* discovery returned no slot and the job has returned
C8_Witness ==
  \E t \in Tasks :
    /\ Has(t, "discovered") /\ loc[t].availableSlots = <<>>
    /\ pc[t] = "done" /\ Len(callbacks[t]) = 1

\* C9: when slots were found and no submit control could be clicked, the
\* callback reports failure with the submit-button error and lists the labels
\* of all discovered slots in discovery order
C9_NoSubmitButton ==
  \A t \in Tasks :
    Has(t, "submit not found") =>
      /\ Len(loc[t].availableSlots) > 0
      /\ (pc[t] \in {"fetch", "close", "done"} => Len(callbacks[t]) = 1)
      /\ \A i \in 1..Len(callbacks[t]) :
           /\ ~callbacks[t][i].success
           /\ callbacks[t][i].error = ErrNoSubmit
           /\ callbacks[t][i].available_slots =
                [k \in 1..Len(loc[t].availableSlots) |->
                   loc[t].availableSlots[k].label]

\* two slots were found, no submit control, and the callback lists both labels
C9_Witness ==
  \E t \in Tasks :
    /\ Has(t, "submit not found") /\ Len(callbacks[t]) = 1
    /\ callbacks[t][1].available_slots = <<SlotMon.label, SlotTue.label>>

\* the accept page of job t looked expired and a default credential is missing
ExpiredNoCredentials(t) ==
  /\ IsJob(t) /\ Has(t, "session expired")
  /\ (RELYHOME_USERNAME = "" \/ RELYHOME_PASSWORD = "")

\* C10: in every step that ends with the accept page found expired and a
\* credential missing, the cache is left as it is, login is not started, no
\* cookies are read, accept_url was loaded once, and the job fails with the
\* no-credentials error
C10_NoCredentials ==
  [][\A t \in Tasks :
       ExpiredNoCredentials(t)' =>
         /\ relyhomeCookies' = relyhomeCookies
         /\ relyhomeCookiesUpdatedAt' = relyhomeCookiesUpdatedAt
         /\ ~Has(t, "loginToRelyHome")' /\ ~Has(t, "login form requested")'
         /\ ~Has(t, "page.cookies")' /\ ~Has(t, "cache saved")'
         /\ Count(t, "page.goto")' = 1 /\ ~Has(t, "page.goto#2")'
         /\ ~Has(t, "discovered")'
         /\ loc'[t].error = ErrNoCredentials
         /\ \A i \in 1..Len(callbacks'[t]) :
              /\ ~callbacks'[t][i].success
              /\ callbacks'[t][i].error = ErrNoCredentials]_vars

\* the password is not configured, the page looked expired, the job returned
C10_Witness ==
  \E t \in Tasks :
    /\ ExpiredNoCredentials(t) /\ RELYHOME_PASSWORD = "" /\ RELYHOME_USERNAME # ""
    /\ pc[t] = "done" /\ Len(callbacks[t]) = 1

\* both happened, an a before a b
Before(t, a, b) ==
  \E j \in 1..Len(trace[t]) :
    trace[t][j] = b /\ \E i \in 1..(j - 1) : trace[t][i] = a

\* e happened at most once
AtMostOnce(t, e) ==
  \A i \in 1..Len(trace[t]) :
    trace[t][i] = e => \A j \in (i + 1)..Len(trace[t]) : trace[t][j] # e

\* e happened exactly once
Once(t, e) == Has(t, e) /\ AtMostOnce(t, e)

\* job t is about to discover the slots (what it did before is not undone)
DiscoveryStarted(t) == IsJob(t) /\ pc[t] = "discover"

\* C11: a job checks the expiry once and logs in at most once, and only when
\* the page looked expired; when it looked expired and credentials are
\* configured, slot discovery starts only after login, the read of the cookies
\* for the cache and the second navigation, in this order, each done once
\* (stated of the state every step of a job leads to; a step of another task
\* changes nothing the statement reads)
LoginSaveGotoDiscover(t) ==
  /\ AtMostOnce(t, "read firstText") /\ AtMostOnce(t, "loginToRelyHome")
  /\ Has(t, "loginToRelyHome") => Before(t, "session expired", "loginToRelyHome")
  /\ (Has(t, "session expired") /\ RELYHOME_USERNAME # "" /\ RELYHOME_PASSWORD # "")
       => /\ Has(t, "loginToRelyHome")
          /\ DiscoveryStarted(t) =>
               /\ Before(t, "loginToRelyHome", "login succeeded")
               /\ Before(t, "login succeeded", "page.cookies")
               /\ Before(t, "page.cookies", "page.goto#2")
               /\ Before(t, "page.goto#2", "discover slots")
               /\ Once(t, "session expired") /\ Once(t, "login form requested")
               /\ Once(t, "login succeeded") /\ Once(t, "page.cookies")
               /\ Once(t, "page.goto#2") /\ Once(t, "discover slots")

C11_LoginSaveGotoDiscover ==
  [][\A t \in Tasks :
       (IsJob(t)' /\ <<pc[t], trace[t]>>' # <<pc[t], trace[t]>>)
         => LoginSaveGotoDiscover(t)']_vars

\* the page looked expired, login succeeded, the cookies were cached, and the
\* slots were discovered on the page loaded again
C11_Witness ==
  \E t \in Tasks :
    /\ IsJob(t) /\ Has(t, "session expired") /\ Has(t, "cache saved")
    /\ Has(t, "discovered") /\ Len(loc[t].availableSlots) > 0

\* the login of request t ended with the invalid-credentials error
LoginFailedInvalid(t) ==
  \/ IsJob(t) /\ loc[t].error = ErrInvalidCredentials
  \/ \E i \in 1..Len(res[t]) :
       res[t][i].status = 500 /\ res[t][i].error = ErrInvalidCredentials

\* C12: no step of a request whose login was started and has not succeeded
\* changes the cached cookies or their timestamp, and a request whose login
\* ended with the invalid-credentials error never reads cookies for the cache
C12_FailedLoginLeavesCache ==
  [][\A t \in Tasks :
       /\ (Has(t, "loginToRelyHome") /\ ~Has(t, "login succeeded"))' =>
            /\ relyhomeCookies' = relyhomeCookies
            /\ relyhomeCookiesUpdatedAt' = relyhomeCookiesUpdatedAt
       /\ LoginFailedInvalid(t)' =>
            /\ Has(t, "loginToRelyHome")' /\ ~Has(t, "login succeeded")'
            /\ ~Has(t, "page.cookies")' /\ ~Has(t, "cache saved")']_vars

\* a /login request failed with invalid credentials while the cache held the
\* cookies an earlier request had saved
C12_Witness ==
  \E t \in Tasks :
    /\ req[t].kind = "login" /\ LoginFailedInvalid(t) /\ pc[t] = "done"
    /\ relyhomeCookies # NoCookies /\ relyhomeCookiesUpdatedAt > 0

\* the cached list is not empty and less than 20 hours old
FreshByAge ==
  /\ Len(relyhomeCookies) > 0
  /\ now - relyhomeCookiesUpdatedAt < 72000000

\* request t leaves setViewport and makes the freshness check of apply
ApplyDecides(t) ==
  /\ pc[t] \in {"setViewport", "scrape.setViewport"}
  /\ pc'[t] \in {"setCookie", "page.goto", "scrape.goto"}

\* C13: hasFreshCookieCache is true exactly when the cached list is not empty
\* and its age is below 20 hours, and apply installs the cookies exactly then;
\* at an age of exactly 20 hours, and with no list, it is false
C13_FreshIffYoungAndNonEmpty ==
  [][/\ hasFreshCookieCache <=> FreshByAge
     /\ now - relyhomeCookiesUpdatedAt = 72000000 => ~hasFreshCookieCache
     /\ relyhomeCookies = NoCookies => ~hasFreshCookieCache
     /\ \A t \in Tasks :
          ApplyDecides(t) => (pc'[t] = "setCookie" <=> FreshByAge)]_vars

\* a request skipped the cached cookies that were exactly 20 hours old
C13_Witness ==
  \E t \in Tasks :
    /\ Len(relyhomeCookies) > 0 /\ now - relyhomeCookiesUpdatedAt = 72000000
    /\ pc[t] \in {"page.goto", "scrape.goto"} /\ ~Has(t, "page.setCookie")

\* this step is a save of request t that stored the cookies it read
Saves(t) == Count(t, "cache saved")' > Count(t, "cache saved")

\* C14: a save that stored cookies stamps them with the time of the save and
\* leaves the cache fresh; while the cache is not written, it is fresh exactly
\* as long as less than 20 hours have passed since that stamp
C14_FreshAfterSaveFor20Hours ==
  [][/\ \A t \in Tasks :
          Saves(t) => /\ Len(relyhomeCookies') > 0
                      /\ relyhomeCookiesUpdatedAt' = now'
                      /\ hasFreshCookieCache'
     /\ (Len(relyhomeCookies) > 0 /\ UNCHANGED cacheVars) =>
          /\ relyhomeCookiesUpdatedAt <= now'
          /\ now' - relyhomeCookiesUpdatedAt < 72000000 => hasFreshCookieCache'
          /\ now' - relyhomeCookiesUpdatedAt >= 72000000 => ~hasFreshCookieCache']_vars

\* cookies saved one millisecond less than 20 hours ago were applied to a page
C14_Witness ==
  \E t \in Tasks :
    /\ Has(t, "cookies applied") /\ Len(relyhomeCookies) > 0
    /\ now - relyhomeCookiesUpdatedAt = 71999999 /\ hasFreshCookieCache

\* this step is the catch block of apply in request t
Clears(t) == Count(t, "cache cleared")' > Count(t, "cache cleared")

\* C15: when page.setCookie throws, the cache becomes (no cookies, 0) and is
\* not fresh, setCookie is not called again and the request goes on to its
\* navigation; when the cache is not fresh, apply calls nothing and leaves the
\* cache as it is
C15_ApplyFailureClears ==
  [][\A t \in Tasks :
       /\ Clears(t) =>
            /\ pc[t] = "setCookie"
            /\ relyhomeCookies' = NoCookies /\ relyhomeCookiesUpdatedAt' = 0
            /\ ~hasFreshCookieCache'
            /\ ~Has(t, "cookies applied")'
            /\ pc'[t] \in {"page.goto", "scrape.goto"}
       /\ (ApplyDecides(t) /\ ~FreshByAge) =>
            /\ UNCHANGED cacheVars
            /\ pc'[t] # "setCookie" /\ ~Has(t, "page.setCookie")'
       /\ Count(t, "page.setCookie")' <= 1]_vars

\* page.setCookie threw on fresh cookies; the request went on and has returned
C15_Witness ==
  \E t \in Tasks :
    /\ Has(t, "cache cleared") /\ pc[t] = "done"
    /\ relyhomeCookies = NoCookies /\ relyhomeCookiesUpdatedAt = 0

\* this step appends event e to what request t did
Adds(t, e) == Count(t, e)' > Count(t, e)

\* C16: the step in which page.cookies() settles changes the cache only when
\* the list read is not empty, and then it stores that list with the current
\* time; an empty list and a rejected read leave cookies and timestamp alone;
\* in every case the caller goes on with its next call and nothing is thrown
C16_SaveOnlyNonEmpty ==
  [][\A t \in Tasks :
       pc[t] = "cookies" =>
         /\ (Adds(t, "no cookies") \/ Adds(t, "cookies unreadable")) =>
              /\ relyhomeCookies' = relyhomeCookies
              /\ relyhomeCookiesUpdatedAt' = relyhomeCookiesUpdatedAt
         /\ Adds(t, "cache saved") =>
              /\ Len(relyhomeCookies') > 0
              /\ relyhomeCookies' = Jar(t)
              /\ relyhomeCookiesUpdatedAt' = now
         /\ pc'[t] # pc[t] =>
              /\ \/ Adds(t, "no cookies") \/ Adds(t, "cookies unreadable")
                 \/ Adds(t, "cache saved")
              /\ pc'[t] \in {"page.goto#2", "scrape.goto#2", "portal.links"}
              /\ ~Adds(t, "throw")
              /\ loc'[t] = loc[t] /\ res'[t] = res[t]
              /\ callbacks'[t] = callbacks[t]]_vars

\* a read of no cookies left the cookies an earlier request had saved
C16_Witness ==
  \E t \in Tasks :
    /\ Has(t, "no cookies") /\ ~Has(t, "cache saved") /\ ~Has(t, "cache cleared")
    /\ Len(relyhomeCookies) > 0 /\ relyhomeCookiesUpdatedAt > 0

\* no cookies with the timestamp 0, or a non-empty list with the time of a save
CacheWhole ==
  \/ relyhomeCookies = NoCookies /\ relyhomeCookiesUpdatedAt = 0
  \/ /\ Len(relyhomeCookies) > 0
     /\ relyhomeCookiesUpdatedAt > 0 /\ relyhomeCookiesUpdatedAt <= now

\* C17: between any two steps the cache is either (no cookies, 0) or a
\* non-empty list with the time of a save, and every step that changes the
\* cache writes both parts: a clear writes (no cookies, 0), a save writes the
\* list it read together with the time of that save
C17_CacheNeverTorn ==
  [][/\ CacheWhole /\ CacheWhole'
     /\ (relyhomeCookies' # relyhomeCookies
         \/ relyhomeCookiesUpdatedAt' # relyhomeCookiesUpdatedAt) =>
          \/ /\ relyhomeCookies' = NoCookies /\ relyhomeCookiesUpdatedAt' = 0
             /\ \E t \in Tasks : Clears(t)
          \/ \E t \in Tasks :
               /\ Saves(t) /\ pc[t] = "cookies"
               /\ relyhomeCookies' = Jar(t) /\ relyhomeCookiesUpdatedAt' = now]_vars

\* a request applied the cached cookies, logged in all the same, and its save
\* replaced the cached list and its timestamp at a later time
C17_Witness ==
  \E t \in Tasks :
    /\ Has(t, "cookies applied") /\ Has(t, "cache saved")
    /\ relyhomeCookies = Jar(t)
    /\ relyhomeCookiesUpdatedAt = now /\ now > 2 * 72000000

\* looksLikeRelyhomeSessionExpired was called on its own and has returned
ExpiredReturned ==
  call.fn = "looksLikeRelyhomeSessionExpired" /\ ~call.pending

\* the lowercased text contains one of the five phrases
HasExpiryPhrase(text) ==
  \E p \in {<<"login">>, <<"sign", "in">>, <<"session", "expired">>,
             <<"please", "log", "in">>, <<"authentication", "required">>} :
    includes(toLowerCase(text), p)

LoginClassified == call.fn = "loginToRelyHome" /\ ~call.pending

\* the lowercased text contains one of the eleven error phrases
HasErrorPhrase(text) ==
  \E p \in {<<"invalid", "password">>, <<"invalid", "credentials">>,
             <<"incorrect", "password">>, <<"wrong", "password">>,
             <<"login", "failed">>, <<"authentication", "failed">>,
             <<"invalid", "username">>, <<"invalid", "email">>,
             <<"user", "not", "found">>, <<"account", "not", "found">>,
             <<"bad", "credentials">>} :
    includes(toLowerCase(text), p)

\* the thirteen success signals, one by one
SuccessSignals(url, text) ==
  {~includes(url, <<"/", "login">>)}
  \cup {includes(url, <<w>>) :
          w \in {"dashboard", "available", "jobs", "home", "portal"}}
  \cup {includes(toLowerCase(text), p) :
          p \in {<<"welcome">>, <<"dashboard">>, <<"available", "jobs">>,
                 <<"logout">>, <<"sign", "out">>, <<"my", "account">>}}
  \cup {StrLen(text) > 500 /\ ~includes(toLowerCase(text), <<"password">>)}

\* C19: a page text with an error phrase ends the login with the
\* invalid-credentials failure, whatever success signals the URL and the text
\* show and without a probe of the password field
C19_ErrorPhraseWins ==
  (LoginClassified /\ HasErrorPhrase(call.pageText)) =>
    /\ call.outcome = "Failed(InvalidCredentials)"
    /\ ~call.probed

\* the URL had left /login and the text said welcome, and the error phrase in
\* the text made the login fail
C19_Witness ==
  /\ LoginClassified
  /\ call.finalUrl = <<"https://sso.example", "/", "index.php">>
  /\ call.pageText = <<"Welcome", "Invalid", "credentials">>
  /\ TRUE \in SuccessSignals(call.finalUrl, call.pageText)
  /\ call.outcome = "Failed(InvalidCredentials)"

\* C20: with no error phrase in the text, one success signal is enough for
\* the login to succeed, and the password field is not even probed
C20_AnySignalSucceeds ==
  (/\ LoginClassified /\ ~HasErrorPhrase(call.pageText)
   /\ TRUE \in SuccessSignals(call.finalUrl, call.pageText)) =>
    /\ call.outcome = "Succeeded"
    /\ ~call.probed

\* still on a /login URL with the password field present, the words 'my
\* account' alone made the login succeed
C20_Witness ==
  /\ LoginClassified /\ call.finalUrl = UrlSso
  /\ call.pageText = <<"my", "account">> /\ call.passwordStillVisible
  /\ call.outcome = "Succeeded"

\* C21: the login ends in the still-on-login-page failure only when no error
\* phrase was found, no success signal fired, the final URL contains '/login'
\* and a password input is present; when the success signals were evaluated
\* and none fired (which the code does only after finding no error phrase) and
\* the password input is absent, the login succeeds
C21_StillOnLoginPageIsStrict ==
  LoginClassified =>
    /\ call.probed <=> (/\ ~HasErrorPhrase(call.pageText)
                        /\ TRUE \notin SuccessSignals(call.finalUrl, call.pageText))
    /\ call.outcome = "Failed(StillOnLoginPage)" =>
         /\ ~HasErrorPhrase(call.pageText)
         /\ TRUE \notin SuccessSignals(call.finalUrl, call.pageText)
         /\ includes(call.finalUrl, <<"/", "login">>)
         /\ call.passwordStillVisible
    /\ (call.probed /\ ~call.passwordStillVisible) => call.outcome = "Succeeded"

\* on a /login URL of another host the page showed only a short password form,
\* the password input was still there, and the login failed as still on the
\* login page
C21_Witness ==
  /\ LoginClassified /\ call.finalUrl = UrlSso
  /\ call.pageText = <<"password", "<filler-50>">>
  /\ call.probed /\ call.passwordStillVisible
  /\ call.outcome = "Failed(StillOnLoginPage)"

\* findBestSlot has returned at least once
SlotSelected == call.fn = "findBestSlot" /\ Len(call.returned) > 0

\* the slot s without the score findBestSlot attaches to its copy
Unscored(s) == [value |-> s.value, label |-> s.label, id |-> s.id, name |-> s.name]

MatchesADay(label, days) ==
  \E i \in 1..Len(days) :
    \/ labelIncludes(toLowerCase(label), LowerTok(days[i]))
    \/ labelIncludes(toLowerCase(label), getDayFull(LowerTok(days[i])))

\* the number of preferred days the label contains
DaysMatched(label, days) ==
  Cardinality({i \in 1..Len(days) : MatchesADay(label, <<days[i]>>)})

\* what the preferred times add to the score of the label
TimePart(label, times) == TimeScore(toLowerCase(label), toLowerCase(times))

\* C23: of two scored slots to which the preferred times add the same, the
\* one whose label contains a preferred day scores exactly 100 more than the
\* one whose label contains none, however many preferred days it contains
C23_DayAdds100Once ==
  SlotSelected =>
    LET scored == call.returned[1].scoredSlots
    IN  \A a, b \in 1..Len(scored) :
          (/\ MatchesADay(scored[a].label, call.preferredDays)
           /\ ~MatchesADay(scored[b].label, call.preferredDays)
           /\ TimePart(scored[a].label, call.preferredSlots)
                = TimePart(scored[b].label, call.preferredSlots))
            => scored[a].score = scored[b].score + 100

\* 'mon' and 'Monday' were both preferred: the Monday slot matched both and
\* scored 150, the same range without a day scored 50
C23_Witness ==
  /\ SlotSelected
  /\ call.availableSlots = <<SlotBare, SlotMon>>
  /\ call.preferredDays = <<"mon", "Monday">>
  /\ call.preferredSlots = <<"9:00am">>
  /\ DaysMatched(SlotMon.label, call.preferredDays) = 2
  /\ call.returned[1].scoredSlots[1].score = 50
  /\ call.returned[1].scoredSlots[2].score = 150

\* the label contains the token as it is written, in the case it is written in
ContainsVerbatim(label, tok) == labelIncludes(label, tok)

\* the preferred time matches the label in one of the two ways the code tries
MatchesTime(label, tok) ==
  \/ labelIncludes(toLowerCase(label), LowerTok(tok))
  \/ timeRangeMatches(toLowerCase(label), LowerTok(tok))

\* C24 as stated: with t0 and t1 the first two preferred times, two distinct
\* tokens, a slot whose label contains t0 and a slot of another label that
\* contains t1, neither with a day match, score 5 apart, the first one higher
C24_FirstTimeBeatsSecondBy5 ==
  (SlotSelected /\ Len(call.preferredSlots) >= 2) =>
    LET scored == call.returned[1].scoredSlots
        t0 == call.preferredSlots[1]
        t1 == call.preferredSlots[2]
    IN  \A a, b \in 1..Len(scored) :
          (/\ t0 # t1 /\ scored[a].label # scored[b].label
           /\ ContainsVerbatim(scored[a].label, t0)
           /\ ContainsVerbatim(scored[b].label, t1)
           /\ ~MatchesADay(scored[a].label, call.preferredDays)
           /\ ~MatchesADay(scored[b].label, call.preferredDays))
            => scored[a].score = scored[b].score + 5

\* C24, amended: the same, provided the slot whose label contains t1 does not
\* match t0 as well (its label neither contains t0 nor shares a time with it)
C24_FirstTimeBeatsSecondBy5UnlessBothMatch ==
  (SlotSelected /\ Len(call.preferredSlots) >= 2) =>
    LET scored == call.returned[1].scoredSlots
        t0 == call.preferredSlots[1]
        t1 == call.preferredSlots[2]
    IN  \A a, b \in 1..Len(scored) :
          (/\ t0 # t1 /\ scored[a].label # scored[b].label
           /\ ContainsVerbatim(scored[a].label, t0)
           /\ ContainsVerbatim(scored[b].label, t1)
           /\ ~MatchesTime(scored[b].label, t0)
           /\ ~MatchesADay(scored[a].label, call.preferredDays)
           /\ ~MatchesADay(scored[b].label, call.preferredDays))
            => /\ scored[a].score = 50 /\ scored[b].score = 45
               /\ scored[a].score = scored[b].score + 5

\* 9:00am was preferred first and 1:00pm second, no day: the 9:00am-11:00am
\* slot scored 50 and the 1:00pm-3:00pm slot 45
C24_Witness ==
  /\ SlotSelected
  /\ call.availableSlots = <<SlotTue, SlotBare>>
  /\ call.preferredDays = <<>>
  /\ call.preferredSlots = <<"9:00am", "1:00pm">>
  /\ call.returned[1].scoredSlots[1].score = 45
  /\ call.returned[1].scoredSlots[2].score = 50
  /\ Unscored(call.returned[1].bestSlot) = SlotBare

\* C25: the slot findBestSlot returns is the first, in discovery order, of the
\* slots of highest score; when no slot matches any preference that is the
\* first discovered slot; a slot is returned with or without matches
C25_FirstOfTheBest ==
  (SlotSelected /\ Len(call.availableSlots) > 0) =>
    LET scored == call.returned[1].scoredSlots
        bestSlot == call.returned[1].bestSlot
    IN  /\ Len(scored) = Len(call.availableSlots)
        /\ \A i \in 1..Len(scored) : Unscored(scored[i]) = call.availableSlots[i]
        /\ \E i \in 1..Len(scored) :
             /\ bestSlot = scored[i]
             /\ \A j \in 1..Len(scored) : scored[j].score <= scored[i].score
             /\ \A j \in 1..(i - 1) : scored[j].score < scored[i].score
        /\ (\A i \in 1..Len(scored) :
              /\ ~MatchesADay(scored[i].label, call.preferredDays)
              /\ \A k \in 1..Len(call.preferredSlots) :
                   ~MatchesTime(scored[i].label, call.preferredSlots[k]))
             => /\ bestSlot.score = 0
                /\ Unscored(bestSlot) = call.availableSlots[1]

\* two Tuesday slots both contained the preferred time 1:00pm and no
\* preferred day: they tied at 50 and the one discovered first was returned
C25_Witness ==
  /\ SlotSelected
  /\ call.availableSlots = <<SlotLate, SlotTue>>
  /\ call.preferredDays = <<"mon">>
  /\ call.preferredSlots = <<"1:00pm">>
  /\ call.returned[1].scoredSlots[1].score = 50
  /\ call.returned[1].scoredSlots[2].score = 50
  /\ Unscored(call.returned[1].bestSlot) = SlotLate

\* job t asked for ['mon'] and ['9:00am'] and discovered the slots
\* 'Monday 9:00am-11:00am' and 'Tuesday 1:00pm-3:00pm', in this order
ScenarioADiscovered(t) ==
  /\ IsJob(t) /\ Has(t, "discovered")
  /\ req[t].preferred_days = <<"mon">> /\ req[t].preferred_slots = <<"9:00am">>
  /\ labelsOf(loc[t].availableSlots)
       = << <<"Monday", "9:00am-11:00am">>, <<"Tuesday", "1:00pm-3:00pm">> >>

\* C26: in that scenario the Monday slot is selected, and a success callback
\* carries selected_day 'Monday' and as selected_slot the time range of the
\* label, '9:00am-11:00am'
C26_ScenarioA ==
  \A t \in Tasks :
    ScenarioADiscovered(t) =>
      /\ loc[t].bestSlot.label = <<"Monday", "9:00am-11:00am">>
      /\ loc[t].bestSlot.value = SlotMon.value
      /\ \A i \in 1..Len(callbacks[t]) :
           callbacks[t][i].success =>
             /\ callbacks[t][i].selected_day = "Monday"
             /\ callbacks[t][i].selected_slot = "9:00am-11:00am"

\* the job of the scenario has sent its success callback
C26_Witness ==
  \E t \in Tasks :
    /\ ScenarioADiscovered(t)
    /\ Len(callbacks[t]) = 1 /\ callbacks[t][1].success
    /\ callbacks[t][1].selected_day = "Monday"
    /\ callbacks[t][1].available_slots
         = << <<"Monday", "9:00am-11:00am">>, <<"Tuesday", "1:00pm-3:00pm">> >>

IsScrape(t) == req[t].kind = "scrape"

\* both fields of a pair of credentials are given
Complete(username, password) == username # "" /\ password # ""

\* each credential as the scrape handler resolves it: the field of the request
\* when it is given, else the configured one
ResolvedUsername(t) ==
  IF req[t].username # "" THEN req[t].username ELSE RELYHOME_USERNAME
ResolvedPassword(t) ==
  IF req[t].password # "" THEN req[t].password ELSE RELYHOME_PASSWORD

\* request t was answered with status 500 and this message
Answered500(t, message) ==
  \E i \in 1..Len(res[t]) : res[t][i].status = 500 /\ res[t][i].error = message

\* the part of C27 that is not about which credentials are complete: login at
\* most once and only after a first extraction that looks expired, with the
\* credentials of the request before the configured ones; then the cookies,
\* the second navigation and the second extraction, once each and in this
\* order; the second extraction is returned unchecked; one response
ScrapeLogsInOnce(t) ==
  /\ AtMostOnce(t, "loginToRelyHome")
  /\ Count(t, "extracted") <= 2
  /\ (Has(t, "loginToRelyHome") /\ Count(t, "extracted") = 1)
       => looksLikeRelyhomeSessionExpired(loc[t].markdown)
  /\ (Count(t, "extracted") = 1 /\ Has(t, "res.json"))
       => ~looksLikeRelyhomeSessionExpired(loc[t].markdown)
  /\ Has(t, "loginToRelyHome") =>
       /\ Before(t, "extracted", "loginToRelyHome")
       /\ loc[t].u = ResolvedUsername(t) /\ loc[t].p = ResolvedPassword(t)
       /\ Complete(req[t].username, req[t].password)
            => loc[t].u = req[t].username /\ loc[t].p = req[t].password
  /\ Answered500(t, ErrScrapeNoCredentials) =>
       /\ ~Has(t, "loginToRelyHome") /\ Count(t, "extracted") = 1
       /\ looksLikeRelyhomeSessionExpired(loc[t].markdown)
  /\ Count(t, "extracted") = 2 =>
       /\ Before(t, "loginToRelyHome", "login succeeded")
       /\ Before(t, "login succeeded", "page.cookies")
       /\ Before(t, "page.cookies", "scrape.goto#2")
       /\ Once(t, "login succeeded") /\ Once(t, "page.cookies")
       /\ Once(t, "scrape.goto#2")
       /\ Has(t, "res.json") =>
            \E i \in 1..Len(res[t]) :
              res[t][i].status = 200 /\ res[t][i].raw_markdown = loc[t].markdown
  /\ Len(res[t]) <= 1
  /\ pc[t] = "done" => Len(res[t]) = 1

\* C27 as stated: a scrape logs in at most once, re-extracts once and answers
\* once, and it logs in only if the credentials of the request or the
\* configured ones are complete, failing for lack of credentials otherwise
C27_ScrapeLogsInOnce ==
  \A t \in Tasks :
    IsScrape(t) =>
      /\ ScrapeLogsInOnce(t)
      /\ Has(t, "loginToRelyHome") =>
           \/ Complete(req[t].username, req[t].password)
           \/ Complete(RELYHOME_USERNAME, RELYHOME_PASSWORD)
      /\ Answered500(t, ErrScrapeNoCredentials) =>
           /\ ~Complete(req[t].username, req[t].password)
           /\ ~Complete(RELYHOME_USERNAME, RELYHOME_PASSWORD)

\* C27, amended: the same, but the scrape logs in whenever the username and
\* the password, each resolved on its own, are both non-empty, and fails for
\* lack of credentials exactly when one of the two resolved fields is empty
C27_ScrapeLogsInOnceFieldByField ==
  \A t \in Tasks :
    IsScrape(t) =>
      /\ ScrapeLogsInOnce(t)
      /\ Has(t, "loginToRelyHome") =>
           Complete(ResolvedUsername(t), ResolvedPassword(t))
      /\ Answered500(t, ErrScrapeNoCredentials) =>
           ~Complete(ResolvedUsername(t), ResolvedPassword(t))

\* a scrape found the session expired, logged in with the credentials of the
\* request although the configured ones were complete too, extracted again a
\* page that still looked expired, and returned it with status 200
C27_Witness ==
  \E t \in Tasks :
    /\ IsScrape(t) /\ pc[t] = "done" /\ Count(t, "extracted") = 2
    /\ Complete(RELYHOME_USERNAME, RELYHOME_PASSWORD)
    /\ loc[t].u = "u2" /\ loc[t].p = "p2"
    /\ looksLikeRelyhomeSessionExpired(loc[t].markdown)
    /\ Len(res[t]) = 1 /\ res[t][1].status = 200
    /\ res[t][1].raw_markdown = loc[t].markdown

\* C28: with two handlers in flight, a save that stores cookies overwrites
\* whatever the other handler stored with the list it read itself and the
\* time of this save, and nothing but a save or the catch block of an apply
\* changes the cache: so once both have saved, the cache holds the list and
\* the timestamp of the save that ran last
C28_LastSaveWins ==
  [][/\ \A t \in ConcTasks :
          Adds(t, "cache saved") =>
            /\ relyhomeCookies' = Jar(t)
            /\ relyhomeCookiesUpdatedAt' = now
     /\ cacheVars' # cacheVars =>
          \E t \in ConcTasks : Adds(t, "cache saved") \/ Adds(t, "cache cleared")
     /\ (\A t \in ConcTasks : Has(t, "cache saved")' /\ pc'[t] # "done") =>
          /\ \E t \in ConcTasks : relyhomeCookies' = Jar(t)
          /\ relyhomeCookiesUpdatedAt' > 0 /\ relyhomeCookiesUpdatedAt' <= now']_vars

\* both handlers have saved, each once, while the other was in flight, and
\* the clock has advanced; the cache holds the cookies of the first handler,
\* whose save came last, and the time of that save
C28_Witness ==
  /\ \A t \in ConcTasks : Once(t, "cache saved") /\ pc[t] = AfterSave(t)
  /\ relyhomeCookies = Jar(1)
  /\ ticks = 1 /\ relyhomeCookiesUpdatedAt = now

\* C29: the settlement of page.setCookie and of page.cookies always returns
\* to the caller, which goes on with its next call: nothing is thrown,
\* no response and no callback is sent, also when the cache was cleared or
\* replaced by the other handler while this one was suspended
C29_CacheNeverThrows ==
  [][\A t \in ConcTasks :
       /\ (pc[t] = "setCookie" /\ trace'[t] # trace[t]) =>
            /\ pc'[t] = AfterApply(t)
            /\ Adds(t, "cookies applied") \/ Adds(t, "cache cleared")
       /\ (pc[t] = "cookies" /\ trace'[t] # trace[t]) => pc'[t] = AfterSave(t)
       /\ (pc[t] \in {"setCookie", "cookies"} /\ trace'[t] # trace[t]) =>
            /\ ~Adds(t, "throw")
            /\ res'[t] = res[t] /\ callbacks'[t] = callbacks[t]
            /\ loc'[t].error = loc[t].error]_vars

\* both handlers were suspended in page.setCookie on the same cached cookies;
\* the apply of one cleared the cache, the other resumed on the cleared cache,
\* and both went on to their navigation
C29_Witness ==
  \A t \in ConcTasks :
    /\ Has(t, "cache cleared") /\ ~Has(t, "cache saved")
    /\ pc[t] = AfterApply(t)
    /\ res[t] = <<>> /\ callbacks[t] = <<>>
    /\ relyhomeCookies = NoCookies

\* the login of request t threw this message
LoginFailedWith(t, message) == loc[t].error = message \/ Answered500(t, message)

\* what the login does, in the order of the code; the names in capitals are
\* the states of the login state machine entered
LoginMilestones ==
  <<"loginToRelyHome", "login form requested", "FormLoaded", "probe fields",
    "fields found", "username typed", "password typed", "CredentialsEntered",
    "Submitted", "wait over", "read login text", "classified",
    "login succeeded">>

\* a key was pressed in a field or a submit was attempted
TypedOrSubmitted(t) ==
  \E e \in {"username typed", "password typed", "CredentialsEntered",
            "login clicked", "press Enter", "Enter pressed", "Submitted"} :
    Has(t, e)

\* this step of request t only adds to what the request did, and a milestone
\* of the login it adds was not passed before while the one before it was
StepMovesForward(t) ==
  /\ Len(trace'[t]) > 0 =>
       /\ Len(trace'[t]) >= Len(trace[t])
       /\ SubSeq(trace'[t], 1, Len(trace[t])) = trace[t]
  /\ \A k \in (Len(trace[t]) + 1)..Len(trace'[t]) :
       \A i \in 1..Len(LoginMilestones) :
         trace'[t][k] = LoginMilestones[i] =>
           /\ \A j \in 1..(k - 1) : trace'[t][j] # LoginMilestones[i]
           /\ i > 1 => \E j \in 1..(k - 1) : trace'[t][j] = LoginMilestones[i - 1]

\* the outcome of the login of request t so far: the fields-not-found failure
\* exactly when one of the two fields was not found, and then before any key
\* or submit; the failures of the classification only after the submit; never
\* a success and a failure of the same login
LoginOutcomeInOrder(t) ==
  /\ Has(t, "fields found") => loc[t].usernameField /\ loc[t].passwordField
  /\ (/\ Has(t, "probe fields") /\ pc[t] # "login.probe"
      /\ ~(loc[t].usernameField /\ loc[t].passwordField))
       => LoginFailedWith(t, ErrFields)
  /\ LoginFailedWith(t, ErrFields) =>
       /\ Has(t, "FormLoaded") /\ ~Has(t, "fields found")
       /\ ~(loc[t].usernameField /\ loc[t].passwordField)
       /\ ~TypedOrSubmitted(t)
  /\ (\/ LoginFailedWith(t, ErrInvalidCredentials)
      \/ LoginFailedWith(t, ErrStillOnLogin))
       => Has(t, "Submitted") /\ Has(t, "read login text")
  /\ (\E m \in {ErrFields, ErrInvalidCredentials, ErrStillOnLogin} :
        LoginFailedWith(t, m))
       => ~Has(t, "login succeeded")

\* C30: the login only moves forward: each of its milestones (form loaded,
\* fields found, credentials entered, submitted, classified) is passed at most
\* once and after the one before it; a missing username or password field
\* ends it with the fields-not-found error before any key is typed or any
\* submit attempted; no classification comes before the submit; and it never
\* both succeeds and fails
C30_LoginMovesForward ==
  [][\A t \in Tasks :
       <<pc[t], trace[t]>>' # <<pc[t], trace[t]>> =>
         StepMovesForward(t) /\ LoginOutcomeInOrder(t)']_vars

\* the form was loaded, a username field was found and no password field: the
\* login failed for missing fields with nothing typed and nothing submitted
C30_Witness ==
  \E t \in Tasks :
    /\ Has(t, "FormLoaded") /\ LoginFailedWith(t, ErrFields)
    /\ loc[t].usernameField /\ ~loc[t].passwordField
    /\ ~TypedOrSubmitted(t) /\ pc[t] = "done"

\* what applyRelyhomeCookieCache leaves in the trace, and the navigations
ApplyEvents == {"page.setCookie", "cookies applied", "cache cleared"}
Navigations == {"page.goto", "page.goto#2"}

\* C31: a job calls page.setCookie only from applyRelyhomeCookieCache after
\* setViewport, with a fresh cache and before any navigation; the first
\* page.goto(accept_url) is made only when apply has returned (the cookies
\* set, the cache cleared, or the cache found not fresh); and in what the job
\* did no apply event follows a navigation
C31_AppliedBeforeFirstGoto ==
  [][\A t \in Tasks :
       (IsJob(t)' /\ <<pc[t], trace[t]>>' # <<pc[t], trace[t]>>) =>
         /\ (pc'[t] = "setCookie" /\ pc[t] # "setCookie") =>
              /\ pc[t] = "setViewport" /\ hasFreshCookieCache
              /\ \A i \in 1..Len(trace[t]) : trace[t][i] \notin Navigations
         /\ (pc'[t] = "page.goto" /\ pc[t] # "page.goto") =>
              \/ pc[t] = "setCookie"
              \/ pc[t] = "setViewport" /\ ~hasFreshCookieCache
         /\ \A i \in 1..Len(trace'[t]) :
              trace'[t][i] \in ApplyEvents =>
                \A j \in 1..(i - 1) : trace'[t][j] \notin Navigations]_vars

\* cached cookies were set on the page, the page still looked expired, and the
\* job navigated a second time after its login
C31_Witness ==
  \E t \in Tasks :
    /\ IsJob(t) /\ Has(t, "cookies applied") /\ Has(t, "page.goto#2")
    /\ pc[t] = "discover"

\* C32 as stated: a job clicks the submit control only when the radio input
\* of the selected slot was clicked before, and a job whose radio input was
\* not found never clicks the submit control
C32_SubmitOnlyAfterRadioClicked ==
  \A t \in Tasks :
    IsJob(t) =>
      /\ Has(t, "submit clicked") => Before(t, "radio clicked", "submit clicked")
      /\ Has(t, "radio not found") => ~Has(t, "submit clicked")

\* the catch block of job t has sent its callback
FailureReported(t) ==
  IsJob(t) /\ Has(t, "throw") /\ pc[t] \in {"fetch", "close", "done"}

\* C33 as stated: when a step of a job throws while the job has a page, the
\* screenshot the catch block attempts is one of that page and is attempted
\* before the failure callback; whether or not listing the pages or taking the
\* screenshot fails, exactly one failure callback is sent, and it carries the
\* screenshot the catch block took, else the one taken after the submit, else
\* null
C33_ScreenshotBeforeFailureCallback ==
  \A t \in Tasks :
    /\ (IsJob(t) /\ pc[t] = "catchShot") =>
         /\ browserPages(t)[1] = loc[t].page
         /\ Len(callbacks[t]) = 0
    /\ (FailureReported(t) /\ loc[t].page # Null) =>
         Before(t, "browser.pages", "callback")
    /\ FailureReported(t) =>
         /\ Len(callbacks[t]) = 1 /\ ~callbacks[t][1].success
         /\ callbacks[t][1].screenshot_base64 =
              IF loc[t].screenshotBase64 = ShotError THEN ShotError
              ELSE IF Has(t, "screenshot taken") THEN ShotSubmit
              ELSE Null

\* request t is waiting in the race after a submit
InJobRace(t) == pc[t] \in {"race.navigating", "race.still"}
InLoginRace(t) == pc[t] \in {"login.race.navigating", "login.race.still"}

\* C34: the step that ends the wait after a submit, with or without a
\* navigation, never throws: after the accept submit it calls page.screenshot,
\* after the login submit it goes on to read the URL and the text; it sends
\* no callback and no response and records no error
C34_NavigationWaitIsSoft ==
  [][\A t \in Tasks :
       ((InJobRace(t) \/ InLoginRace(t)) /\ pc'[t] # pc[t]) =>
         /\ InJobRace(t) => pc'[t] = "screenshot"
         /\ InLoginRace(t) => pc'[t] = "login.text"
         /\ Count(t, "throw")' = Count(t, "throw")
         /\ loc'[t] = loc[t] /\ callbacks'[t] = callbacks[t] /\ res'[t] = res[t]
         /\ browser'[t] = "open"]_vars

\* a job logged in, no navigation followed its accept submit, the delay
\* elapsed, and the job reported success
C34_Witness ==
  \E t \in Tasks :
    /\ IsJob(t) /\ Has(t, "delay elapsed") /\ Has(t, "login succeeded")
    /\ pc[t] = "done" /\ Len(callbacks[t]) = 1 /\ callbacks[t][1].success

\* the last two things request t did
LastTwo(t) == SubSeq(trace[t], Len(trace[t]) - 1, Len(trace[t]))

\* job t found its page expired and its login has just succeeded or succeeded
\* before
HealingJob(t) ==
  /\ IsJob(t) /\ Has(t, "session expired")
  /\ RELYHOME_USERNAME # "" /\ RELYHOME_PASSWORD # ""

\* C35: in a job whose accept page looked expired, with credentials
\* configured, the step in which the login succeeds calls page.cookies() for
\* the cache; and when that call returns a non-empty list while the cache is
\* cleared or stale, the step leaves the cache fresh, holding that list stamped
\* with the current time, and the job navigates again
C35_CacheSelfHeals ==
  [][\A t \in Tasks :
       (HealingJob(t) /\ pc'[t] # pc[t]) =>
         /\ (pc[t] \in {"login.text", "login.passwordVisible"}
                /\ Has(t, "login succeeded")')
              => pc'[t] = "cookies"
         /\ (pc[t] = "cookies" /\ ~hasFreshCookieCache
                /\ LastTwo(t)' = <<"cache saved", "page.goto#2">>)
              => /\ hasFreshCookieCache'
                 /\ relyhomeCookies' = Jar(t)
                 /\ relyhomeCookiesUpdatedAt' = now'
                 /\ pc'[t] = "page.goto#2"]_vars

\* the job's apply cleared the cache, the page looked expired, the login
\* succeeded and the cache is fresh again
C35_Witness ==
  \E t \in Tasks :
    /\ HealingJob(t) /\ Has(t, "cache cleared") /\ Has(t, "cache saved")
    /\ hasFreshCookieCache /\ relyhomeCookies = Jar(t)

\* the discovery function has returned
SlotsDiscovered == call.fn = "slotsOf" /\ ~call.pending

\* the text of an element, without the white space at its ends, is not empty
HasText(element) == element.present /\ trim(element.text) # <<>>

\* C36: the discovery returns one slot per radio input, in the order of the
\* inputs, with the input's value, id and name; its label is the text of the
\* label element for its id when that is not empty, else the text of the
\* enclosing row or container when that is not empty, else its value; so a
\* slot with a non-empty value has a non-empty label
C36_LabelNeverEmpty ==
  SlotsDiscovered =>
    /\ Len(call.availableSlots) = Len(call.radioButtons)
    /\ \A i \in 1..Len(call.radioButtons) :
         LET radio == call.radioButtons[i]
             slot == call.availableSlots[i]
             labelled == radio.id # "" /\ HasText(radio.label)
         IN  /\ slot.value = radio.value /\ slot.id = radio.id
             /\ slot.name = radio.name
             /\ slot.value # "" => slot.label # <<>>
             /\ labelled => slot.label = trim(radio.label.text)
             /\ (~labelled /\ HasText(radio.parent))
                  => slot.label = trim(radio.parent.text)
             /\ (~labelled /\ ~HasText(radio.parent))
                  => slot.label = textOf(radio.value)

\* two radios were discovered: the first has only white space around it and
\* is labelled by its value, the second by its label element
C36_Witness ==
  /\ SlotsDiscovered /\ Len(call.availableSlots) = 2
  /\ call.radioButtons[1].label.present /\ call.radioButtons[1].parent.present
  /\ call.availableSlots[1].label = <<"v-mon">>
  /\ call.availableSlots[2].label = <<"Monday", "9:00am-11:00am">>

\* C37 as stated: of two scored slots with the same day-match status, one
\* that matches a preferred time scores strictly higher than one that matches
\* none, however long the list of preferred times is
C37_TimeMatchScoresHigher ==
  SlotSelected =>
    LET scored == call.returned[1].scoredSlots
        times == call.preferredSlots
        days == call.preferredDays
        matches(label) == \E i \in 1..Len(times) : MatchesTime(label, times[i])
    IN  \A a, b \in 1..Len(scored) :
          (/\ MatchesADay(scored[a].label, days) = MatchesADay(scored[b].label, days)
           /\ matches(scored[a].label) /\ ~matches(scored[b].label))
            => scored[a].score > scored[b].score

\* this step is the settlement of page.setCookie in handler t
ApplySettles(t) == pc[t] = "setCookie" /\ pc'[t] # "setCookie"
\* this step is the settlement of page.cookies in handler t
SaveSettles(t) == pc[t] = "cookies" /\ pc'[t] # "cookies"

\* C38 as stated: when the apply of one handler settles while the cache holds
\* other cookies than those the apply passed to page.setCookie (another
\* handler has saved in between), it leaves the cache as it is
C38_ApplyClearsOnlyItsOwn ==
  [][\A t \in ConcTasks :
       (ApplySettles(t) /\ relyhomeCookies # loc[t].setCookieArgs)
         => UNCHANGED cacheVars]_vars

\* C38, amended: an apply that fails clears the cache whatever it holds then,
\* the cookies another handler saved since the apply started included; an
\* apply that succeeds leaves the cache alone; and the cache is written by no
\* step other than the settlement of an apply or of a save
C38_ApplyFailureClearsWhatIsCached ==
  [][/\ \A t \in ConcTasks :
          ApplySettles(t) =>
            IF Has(t, "cache cleared")'
            THEN relyhomeCookies' = NoCookies /\ relyhomeCookiesUpdatedAt' = 0
            ELSE UNCHANGED cacheVars
     /\ cacheVars' # cacheVars =>
          \E t \in ConcTasks : ApplySettles(t) \/ SaveSettles(t)]_vars

\* one handler passed its own earlier cookies to page.setCookie, the other
\* saved its cookies meanwhile, and the failure of the first cleared them
C38_Witness ==
  \E t, u \in ConcTasks :
    /\ t # u /\ Has(t, "cache cleared") /\ loc[t].setCookieArgs = Jar(t)
    /\ Has(u, "cache saved") /\ relyhomeCookies = NoCookies

IsLogin(t) == req[t].kind = "login"

\* request t was answered with an error status
FailureAnswered(t) == \E i \in 1..Len(res[t]) : res[t][i].status >= 400

\* C39 as stated: a /login request that was answered with a failure has
\* written nothing to the cache (the only write of a /login request is the
\* save, which records "cache saved")
C39_FailedLoginRequestLeavesCache ==
  \A t \in Tasks :
    (IsLogin(t) /\ FailureAnswered(t)) => ~Has(t, "cache saved")

\* C39, amended: a /login request writes the cache in one step only, the save
\* that follows the return of loginToRelyHome, and that save is always made; a
\* request that fails before (401, 400, a failed launch or login) has written
\* nothing, one that fails after it does not restore the cache (served one
\* request at a time, the cache still holds the cookies it saved)
C39_LoginRequestWritesOnlyBySave ==
  [][\A t \in Tasks :
       (IsLogin(t)' /\ <<pc[t], trace[t]>>' # <<pc[t], trace[t]>>) =>
         /\ pc[t] # "cookies" => UNCHANGED cacheVars
         /\ (pc[t] \in {"login.text", "login.passwordVisible"}
                /\ Has(t, "login succeeded")')
              => pc'[t] = "cookies"
         /\ pc[t] = "cookies" =>
              /\ Has(t, "login succeeded")
              /\ IF LastTwo(t)'[1] = "cache saved"
                 THEN relyhomeCookies' = Jar(t) /\ relyhomeCookiesUpdatedAt' = now
                 ELSE UNCHANGED cacheVars
         /\ (FailureAnswered(t)' /\ ~Has(t, "login succeeded")')
              => ~Has(t, "cache saved")'
         /\ (FailureAnswered(t)' /\ Has(t, "cache saved")')
              => relyhomeCookies' = Jar(t)]_vars

\* the login succeeded and its cookies were cached, the portal URL found in
\* the end contains /login, and the request was answered with a failure
C39_Witness ==
  \E t \in Tasks :
    /\ IsLogin(t) /\ Answered500(t, ErrPortalLogin) /\ Has(t, "cache saved")
    /\ relyhomeCookies = Jar(t) /\ pc[t] = "done"

\* C40: in a job or a scrape, an apply that succeeds leaves the cookies and
\* the timestamp of the cache as they are; the request writes the cache only
\* when its apply fails (cleared) or in the save after the login it makes
\* when its first page looked expired; and the timestamp is only ever set to
\* the time of a save, or to 0
C40_ApplyIsReadOnly ==
  [][\A t \in Tasks :
       ((IsJob(t)' \/ IsScrape(t)')
          /\ <<pc[t], trace[t]>>' # <<pc[t], trace[t]>>) =>
         /\ (ApplySettles(t) /\ ~Has(t, "cache cleared")') =>
              /\ UNCHANGED cacheVars
              /\ Has(t, "cookies applied")'
         /\ cacheVars' # cacheVars =>
              \/ ApplySettles(t) /\ Has(t, "cache cleared")'
              \/ SaveSettles(t) /\ Has(t, "loginToRelyHome")
         /\ relyhomeCookiesUpdatedAt' # relyhomeCookiesUpdatedAt =>
              relyhomeCookiesUpdatedAt' \in {0, now}]_vars

\* cookies saved one millisecond less than 20 hours ago were applied, the page
\* did not look expired, the job succeeded, and the cache is as old as before
C40_Witness ==
  \E t \in Tasks :
    /\ IsJob(t) /\ Has(t, "cookies applied") /\ ~Has(t, "session expired")
    /\ pc[t] = "done" /\ Len(callbacks[t]) = 1 /\ callbacks[t][1].success
    /\ relyhomeCookies # NoCookies
    /\ now - relyhomeCookiesUpdatedAt = RELYHOME_COOKIE_TTL_MS - 1

====
